---- MODULE Spec2Model ----
(***************************************************************************)
(* State-machine model of quinn-proto's per-connection QUIC core           *)
(* (src/quinn-proto/src/connection.rs).                                    *)
(*                                                                         *)
(* Conventions                                                             *)
(*  - The Connection object is the record held in the variable conn; each  *)
(*    method of the source is an operator from a Connection record (and    *)
(*    the method's arguments) to the Connection record it leaves behind.   *)
(*  - Option<T> is a set with at most one element: {} is None, {x} is      *)
(*    Some(x).                                                             *)
(*  - Instants and Durations are natural numbers of clock ticks; byte      *)
(*    counts are natural numbers of size units.  A subtraction that would  *)
(*    underflow in the source yields a negative number here, so underflow  *)
(*    is visible to the invariants.                                        *)
(*  - Fields whose names start with gh_ are history (ghost) fields: they   *)
(*    record what the code did and are never read by the modelled code.    *)
(***************************************************************************)
EXTENDS Integers, Sequences, FiniteSets, TLC

VARIABLES
    conn,    \* the Connection
    now,     \* the host's clock, handed to every call as `now`
    env,     \* the host/peer side: budgets of the bounded environment
    tx       \* history of poll_transmit: the last Transmit and, per space, the
             \* largest packet number handed out before it

vars == <<conn, now, env, tx>>

----------------------------------------------------------------------------
\* Bounds of the model (not program constants)

\* the clock runs over 0..MaxTime and saturates there
MaxTime == 1
\* datagrams the peer may deliver in one behaviour
MaxDatagrams == 2
\* packets poll_transmit may emit in one behaviour
MaxTransmits == 3
\* application calls (write, finish, reset, ping, close ...) in one behaviour
MaxAppCalls == 3
\* longest write, in size units
MaxWrite == 2
\* timer expiries delivered, other than Close and Idle
MaxTimeouts == 1

----------------------------------------------------------------------------
\* Generic helpers

Min(a, b) == IF a <= b THEN a ELSE b

Max(a, b) == IF a >= b THEN a ELSE b

\* u64::saturating_sub
SatSub(a, b) == IF a >= b THEN a - b ELSE 0

IsSome(o) == o # {}

\* the value of a Some
Get(o) == CHOOSE x \in o : TRUE

SetMin(S) == CHOOSE x \in S : \A y \in S : x <= y

SetMax(S) == CHOOSE x \in S : \A y \in S : x >= y

RECURSIVE SeqSum(_)
SeqSum(s) == IF s = <<>> THEN 0 ELSE Head(s) + SeqSum(Tail(s))

\* number of elements of s satisfying the event type ty
RECURSIVE CountType(_, _)
CountType(s, ty) ==
    IF s = <<>> THEN 0
    ELSE (IF Head(s).type = ty THEN 1 ELSE 0) + CountType(Tail(s), ty)

B2N(b) == IF b THEN 1 ELSE 0

----------------------------------------------------------------------------
\* Enumerations

\* SpaceId: Initial = 0, Handshake = 1, Data = 2
Initial == 0

Handshake == 1

Data == 2

SpaceIds == {Initial, Handshake, Data}

\* enum Timer
Timers == {"LossDetection", "Idle", "Close", "KeyDiscard", "PathValidation", "KeepAlive"}

\* enum State (the payload of Handshake and Closed is kept in separate fields)
States == {"Handshake", "Established", "Closed", "Draining", "Drained"}

\* State::is_handshake
is_handshake(c) == c.state = "Handshake"

\* State::is_established
is_established(c) == c.state = "Established"

\* State::is_closed
is_closed(c) == c.state \in {"Closed", "Draining", "Drained"}

\* State::is_drained
is_drained(c) == c.state = "Drained"

is_client(c) == c.side = "Client"

is_server(c) == c.side = "Server"

----------------------------------------------------------------------------
\* Program constants and the transport configuration, in model units

\* MIN_MTU: the datagram size limit, in size units
MIN_MTU == 6
\* bytes of a packet header / of an AEAD tag / bound of one frame's overhead
HEADER_LEN == 1
TAG_LEN == 1
FRAME_BOUND == 1
\* TIMER_GRANULARITY, in ticks
TIMER_GRANULARITY == 1
MAX_BACKOFF_EXPONENT == 16
\* u64::max_value(), the initial ssthresh (a stand-in that no window reaches)
U64_MAX == 1000000

\* TransportConfig: the tunables the modelled code reads
TransportConfig(idle, keep_alive) ==
    [ idle_timeout |-> idle,
      keep_alive_interval |-> keep_alive,
      initial_rtt |-> 1,
      initial_window |-> 2 * MIN_MTU,
      minimum_window |-> MIN_MTU,
      max_datagram_size |-> MIN_MTU,
      loss_reduction_factor |-> 32768,
      time_threshold |-> 8192,
      packet_threshold |-> 2,
      persistent_congestion_threshold |-> 2,
      send_window |-> 3,
      receive_window |-> 4 ]

----------------------------------------------------------------------------
\* IoQueue timers, as the host sees them once it has applied poll_timers:
\* timers[t] = {} when stopped, {deadline} when running.

\* IoQueue::timer_start
timer_start(c, timer, time) == [c EXCEPT !.timers[timer] = {time}]

\* IoQueue::timer_stop
timer_stop(c, timer) == [c EXCEPT !.timers[timer] = {}]

----------------------------------------------------------------------------
\* RttEstimator

\* RttEstimator::new (min is "infinite": None here)
RttNew == [latest |-> 0, smoothed |-> {}, var |-> 0, min |-> {}]

AbsDiff(a, b) == IF a > b THEN a - b ELSE b - a

\* RttEstimator::update
RttUpdate(r, ack_delay, rtt) ==
    LET min1 == IF r.min = {} THEN rtt ELSE Min(Get(r.min), rtt)
        latest1 == IF rtt - min1 > ack_delay THEN rtt - ack_delay ELSE rtt
    IN  IF IsSome(r.smoothed)
        THEN [ latest |-> latest1,
               min |-> {min1},
               var |-> (3 * r.var + AbsDiff(Get(r.smoothed), latest1)) \div 4,
               smoothed |-> {(7 * Get(r.smoothed) + latest1) \div 8} ]
        ELSE [ latest |-> latest1,
               min |-> {min1},
               var |-> latest1 \div 2,
               smoothed |-> {latest1} ]

\* Connection::max_ack_delay
max_ack_delay(c) == c.params.max_ack_delay

\* Connection::pto
pto(c) ==
    LET rtt == IF IsSome(c.rtt.smoothed) THEN Get(c.rtt.smoothed) ELSE c.config.initial_rtt
    IN  rtt + Max(4 * c.rtt.var, TIMER_GRANULARITY) + max_ack_delay(c)

----------------------------------------------------------------------------
\* InFlight

\* InFlight::new
InFlightNew == [bytes |-> 0, crypto |-> 0, ack_eliciting |-> 0]

\* InFlight::insert
InFlightInsert(f, packet) ==
    [ bytes |-> f.bytes + packet.size,
      crypto |-> f.crypto + B2N(packet.is_crypto_packet),
      ack_eliciting |-> f.ack_eliciting + B2N(packet.ack_eliciting) ]

\* InFlight::remove
InFlightRemove(f, packet) ==
    [ bytes |-> f.bytes - packet.size,
      crypto |-> f.crypto - B2N(packet.is_crypto_packet),
      ack_eliciting |-> f.ack_eliciting - B2N(packet.ack_eliciting) ]

\* InFlight::remove for every packet of a sent_packets map (a loop of the source)
RECURSIVE InFlightRemoveAll(_, _)
InFlightRemoveAll(f, sent) ==
    IF DOMAIN sent = {} THEN f
    ELSE LET n == SetMin(DOMAIN sent)
         IN  InFlightRemoveAll(InFlightRemove(f, sent[n]),
                               [k \in DOMAIN sent \ {n} |-> sent[k]])

----------------------------------------------------------------------------
\* Retransmits and PacketSpace (module spaces): their shape follows the data
\* model of the specification and the way connection.rs uses them

\* Retransmits::default
RetransmitsDefault ==
    [ crypto |-> <<>>,            \* CRYPTO fragments    [offset, len]
      stream |-> <<>>,            \* STREAM fragments    [id, offset, len, fin]
      rst_stream |-> <<>>,        \* RESET_STREAM        stream ids
      stop_sending |-> <<>>,      \* STOP_SENDING        stream ids
      max_data |-> FALSE,
      max_stream_data |-> {},
      max_uni_stream_id |-> FALSE,
      max_bi_stream_id |-> FALSE,
      new_cids |-> <<>>,
      retire_cids |-> <<>> ]

\* Retransmits::is_empty
RetransmitsIsEmpty(r) == r = RetransmitsDefault

\* impl AddAssign for Retransmits: lost CRYPTO and STREAM fragments go to the
\* front of the queues, everything else is merged
RetransmitsAdd(p, rhs) ==
    [ crypto |-> rhs.crypto \o p.crypto,
      stream |-> rhs.stream \o p.stream,
      rst_stream |-> p.rst_stream \o rhs.rst_stream,
      stop_sending |-> p.stop_sending \o rhs.stop_sending,
      max_data |-> p.max_data \/ rhs.max_data,
      max_stream_data |-> p.max_stream_data \cup rhs.max_stream_data,
      max_uni_stream_id |-> p.max_uni_stream_id \/ rhs.max_uni_stream_id,
      max_bi_stream_id |-> p.max_bi_stream_id \/ rhs.max_bi_stream_id,
      new_cids |-> p.new_cids \o rhs.new_cids,
      retire_cids |-> p.retire_cids \o rhs.retire_cids ]

\* the empty BTreeMap of sent packets
NoPackets == [n \in {} |-> 0]

\* PacketSpace::new(now)
PacketSpaceNew(t) ==
    [ crypto |-> FALSE,
      next_packet_number |-> 0,
      largest_acked_packet |-> 0,
      largest_acked_packet_sent |-> t,
      sent_packets |-> NoPackets,
      pending |-> RetransmitsDefault,
      pending_acks |-> {},
      dedup |-> [next |-> 0, seen |-> {}],     \* Dedup::new()
      crypto_offset |-> 0,
      crypto_stream |-> 0,        \* crypto_stream.offset(): bytes handed to TLS
      loss_time |-> {},
      ecn_feedback |-> [ect0 |-> 0, ect1 |-> 0, ce |-> 0],
      permit_ack_only |-> FALSE,
      rx_packet |-> 0,
      rx_packet_time |-> t ]

\* PacketSpace::can_send: "pending queues non-empty", or an ACK is due
can_send(sp) ==
    \/ ~RetransmitsIsEmpty(sp.pending)
    \/ (sp.permit_ack_only /\ sp.pending_acks # {})

\* Dedup: the bitmap over the latest WINDOW_SIZE packet numbers of a space;
\* next is the highest number recorded plus one, seen the numbers recorded
\* among the latest WINDOW_SIZE
WINDOW_SIZE == 2

DedupNew == [next |-> 0, seen |-> {}]

\* Dedup::insert records a packet number; res tells whether the packet might
\* be a duplicate: its number is recorded already or is older than the window.
\* A larger number advances the window
DedupInsert(d, n) ==
    IF n >= d.next
    THEN [d |-> [next |-> n + 1, seen |-> {k \in d.seen \cup {n} : k > n - WINDOW_SIZE}],
          res |-> FALSE]
    ELSE IF d.next - 1 - n < WINDOW_SIZE
    THEN [d |-> [d EXCEPT !.seen = @ \cup {n}], res |-> n \in d.seen]
    ELSE [d |-> d, res |-> TRUE]

\* Dedup::insert: TRUE iff the packet number is a duplicate
DedupIsDuplicate(d, n) == DedupInsert(d, n).res

----------------------------------------------------------------------------
\* The TLS session (an external collaborator), as far as the connection
\* drives it: tls.stage counts the flights read (the handshake is complete at
\* stage 2) and tls.out queues what write_handshake will hand back:
\* [keys: the next level's keys, bytes: length of the outgoing flight].

\* start_session: a client has its ClientHello to write
TlsStart(side) ==
    [ stage |-> 0,
      out |-> IF side = "Client" THEN << [keys |-> FALSE, bytes |-> 1] >> ELSE <<>> ]

\* TlsSession::is_handshaking
TlsIsHandshaking(tls) == tls.stage < 2

\* TlsSession::read_handshake, given the level the complete flight came in at
TlsReadHandshake(tls, side, space) ==
    CASE side = "Client" /\ space = Initial /\ tls.stage = 0 ->
            [stage |-> 1, out |-> tls.out \o << [keys |-> TRUE, bytes |-> 0] >>]
      [] side = "Client" /\ space = Handshake /\ tls.stage = 1 ->
            [stage |-> 2, out |-> tls.out \o << [keys |-> TRUE, bytes |-> 1] >>]
      [] side = "Server" /\ space = Initial /\ tls.stage = 0 ->
            [stage |-> 1, out |-> tls.out \o << [keys |-> TRUE, bytes |-> 1],
                                                 [keys |-> TRUE, bytes |-> 1] >>]
      [] side = "Server" /\ space = Handshake /\ tls.stage = 1 ->
            [stage |-> 2, out |-> tls.out]
      [] OTHER -> tls

\* TransportParameters the peer declares (tls.transport_parameters())
TransportParameters(maxdata, reset_token, ocid) ==
    [ early_data |-> FALSE,
      initial_max_data |-> maxdata,
      initial_max_stream_data |-> maxdata,
      idle_timeout |-> 0,
      max_ack_delay |-> 0,
      stateless_reset_token |-> reset_token,   \* is a reset token known
      original_connection_id |-> ocid ]        \* "none", "match" or "other"

\* TransportParameters::new(&config): our own defaults, before the peer's arrive
TransportParametersNew == TransportParameters(0, FALSE, "none")

----------------------------------------------------------------------------
\* Connection::new

ConnectionNew(side, config, t, remote_validated, peer, ticket) ==
    [ side |-> side,
      config |-> config,
      peer_params |-> peer,        \* what the TLS session will report
      ticket |-> ticket,           \* tls.early_crypto(): {} or the parameters
                                   \* remembered with the session ticket
      early_data_accepted |-> peer.early_data,   \* tls.early_data_accepted()
      tls |-> TlsStart(side),
      state |-> "Handshake",
      rem_cid_set |-> side = "Server",
      token |-> FALSE,
      close_reason |-> "none",
      rem_cid |-> 0,
      rem_handshake_cid |-> 0,
      orig_rem_cid |-> {},
      remote |-> 0,
      prev_remote |-> {},
      mtu |-> MIN_MTU,
      zero_rtt_crypto |-> FALSE,
      key_phase |-> FALSE,
      key_gen |-> 0,            \* generation of spaces[Data].crypto.packet
      params |-> TransportParametersNew,
      blocked_streams |-> {},
      max_data |-> 0,
      data_sent |-> 0,
      unacked_data |-> 0,
      lost_packets |-> 0,
      probes |-> 0,
      close |-> FALSE,
      timers |-> [t1 \in Timers |-> {}],
      events |-> <<>>,
      endpoint_events |-> <<>>,
      spaces |-> [s \in SpaceIds |->
                    IF s = Initial THEN [PacketSpaceNew(t) EXCEPT !.crypto = TRUE]
                    ELSE PacketSpaceNew(t)],
      highest_space |-> Initial,
      prev_crypto |-> {},
      path_challenge |-> {},
      accepted_0rtt |-> FALSE,
      permit_idle_reset |-> TRUE,
      idle_timeout |-> config.idle_timeout,
      path_challenge_pending |-> FALSE,
      ping_pending |-> FALSE,
      path_response |-> {},
      offpath_responses |-> <<>>,
      crypto_count |-> 0,
      pto_count |-> 0,
      time_of_last_sent_ack_eliciting_packet |-> t,
      time_of_last_sent_crypto_packet |-> t,
      rtt |-> RttNew,
      in_flight |-> InFlightNew,
      congestion_window |-> config.initial_window,
      recovery_start_time |-> t,
      ssthresh |-> U64_MAX,
      sending_ecn |-> TRUE,
      receiving_ecn |-> FALSE,
      remote_validated |-> remote_validated,
      total_recvd |-> 0,
      total_sent |-> 0,
      streams |-> [i \in {} |-> 0],
      next_stream |-> 0,           \* streams.next_uni: index of the next stream to open
      \* history: packets recorded by on_packet_sent so far, and the ids of
      \* the SentPackets passed to `acknowledged' and to `declared lost'
      gh_panic |-> FALSE,          \* an unwrap/assert of the source failed
      gh_sent |-> 0,
      gh_ecn_decreased |-> FALSE,  \* an in-order ACK reported a smaller ECN count
      gh_key |-> {},               \* keys the last 1-RTT packet was decrypted with
      gh_processed |-> {},         \* <<space, number>> of the packets processed
      gh_nprocessed |-> 0,         \* how many packets were processed
      gh_acked |-> <<>>,
      gh_lost |-> <<>> ]

----------------------------------------------------------------------------
\* Small accessors

push_event(c, e) == [c EXCEPT !.events = Append(@, e)]

push_endpoint_event(c, e) == [c EXCEPT !.endpoint_events = Append(@, e)]

\* Event::ConnectionLost { reason }
ConnectionLost(reason) == [type |-> "ConnectionLost", arg |-> reason]

\* Streams::get_send_mut(id).is_some()
has_send(c, id) == id \in DOMAIN c.streams

\* SendState::was_reset
was_reset(ss) == ss.state \in {"ResetSent", "ResetRecvd"}

\* a fresh send stream, as Streams::open leaves it
SendNew(max_data) ==
    [state |-> "Ready", stop_reason |-> {}, offset |-> 0, max_data |-> max_data,
     bytes_in_flight |-> 0]

\* Streams::maybe_cleanup: forget a stream whose send side is finished
maybe_cleanup(c, id) ==
    IF has_send(c, id) /\ c.streams[id].state \in {"DataRecvd", "ResetRecvd"}
    THEN [c EXCEPT !.streams = [i \in DOMAIN c.streams \ {id} |-> c.streams[i]]]
    ELSE c

----------------------------------------------------------------------------
\* Timers and closing

\* Connection::close_common
close_common(c) == [c EXCEPT !.timers = [t \in Timers |-> {}]]

\* Connection::set_close_timer
set_close_timer(c, t) == timer_start(c, "Close", t + 3 * pto(c))

\* Connection::close
close(c, t, error_code) ==
    IF ~is_closed(c)
    THEN [set_close_timer(close_common(c), t) EXCEPT
            !.close = TRUE,
            !.state = "Closed",
            !.close_reason = "Application"]
    ELSE c

\* Connection::reset_idle_timeout
reset_idle_timeout(c, t) ==
    IF c.idle_timeout = 0 THEN c
    ELSE IF is_closed(c) THEN timer_stop(c, "Idle")
    ELSE timer_start(c, "Idle", t + c.idle_timeout)

\* Connection::reset_keep_alive
reset_keep_alive(c, t) ==
    IF c.config.keep_alive_interval = 0 \/ ~is_established(c) THEN c
    ELSE timer_start(c, "KeepAlive", t + c.config.keep_alive_interval)

\* Connection::ping
ping(c) == [c EXCEPT !.ping_pending = TRUE]

\* a faulty set_key_discard_timer: the timer is armed for the Handshake keys only
set_key_discard_timer_for_handshake(c, t) ==
    IF c.spaces[Handshake].crypto
    THEN timer_start(c, "KeyDiscard", t + 3 * pto(c))
    ELSE c

\* Connection::set_key_discard_timer
set_key_discard_timer(c, t) ==
    IF c.spaces[Handshake].crypto
    THEN timer_start(c, "KeyDiscard", t + 3 * pto(c))
    ELSE IF IsSome(c.prev_crypto) /\ IsSome(Get(c.prev_crypto).update_ack_time)
    THEN timer_start(c, "KeyDiscard", Get(Get(c.prev_crypto).update_ack_time) + 3 * pto(c))
    ELSE c

\* a faulty discard_space: the packets of the space are dropped while the
\* in-flight counters keep counting them
discard_space_keeping_in_flight(c, space) ==
    [c EXCEPT !.crypto_count = 0,
              !.spaces[space].crypto = FALSE,
              !.spaces[space].sent_packets = NoPackets]

\* Connection::discard_space
discard_space(c, space) ==
    [c EXCEPT !.crypto_count = 0,
              !.spaces[space].crypto = FALSE,
              !.spaces[space].sent_packets = NoPackets,
              !.in_flight = InFlightRemoveAll(@, c.spaces[space].sent_packets)]

\* Connection::upgrade_crypto
upgrade_crypto(c, space) ==
    [c EXCEPT !.spaces[space].crypto = TRUE, !.highest_space = space]

\* Connection::write_tls
RECURSIVE write_tls(_)
write_tls(c) ==
    IF c.tls.out = <<>> THEN c
    ELSE LET space == c.highest_space
             item == Head(c.tls.out)
             c1 == [c EXCEPT !.tls.out = Tail(@)]
             c2 == IF item.keys THEN upgrade_crypto(c1, space + 1) ELSE c1
         IN  IF item.bytes = 0 THEN c2
             ELSE write_tls(
                    [c2 EXCEPT
                       !.spaces[space].crypto_offset = @ + item.bytes,
                       !.spaces[space].pending.crypto =
                           Append(@, [offset |-> c2.spaces[space].crypto_offset,
                                      len |-> item.bytes])])

\* Connection::set_params; result is <<ok, connection>>
set_params_ok(c, params) ==
    ~(is_client(c) /\
        \/ (c.orig_rem_cid = {} /\ params.original_connection_id # "none")
        \/ (c.orig_rem_cid # {} /\ params.original_connection_id # "match"))

set_params(c, params) ==
    IF ~set_params_ok(c, params) THEN c
    ELSE [c EXCEPT
            !.max_data = params.initial_max_data,
            !.idle_timeout =
                IF c.config.idle_timeout = 0 \/ params.idle_timeout = 0
                THEN Max(c.config.idle_timeout, params.idle_timeout)
                ELSE Min(c.config.idle_timeout, params.idle_timeout),
            !.params = params]

\* Connection::init_0rtt
init_0rtt(c) ==
    IF c.ticket = {} THEN c
    ELSE IF is_client(c)
    THEN IF set_params_ok(c, Get(c.ticket))
         THEN [set_params(c, Get(c.ticket)) EXCEPT !.zero_rtt_crypto = TRUE]
         ELSE c
    ELSE [c EXCEPT !.zero_rtt_crypto = TRUE]

\* Streams::zero_rtt_rejected: the send side of every stream is back to its
\* initial state
zero_rtt_rejected(streams) ==
    [i \in DOMAIN streams |-> SendNew(streams[i].max_data)]

\* Connection::reject_0rtt
reject_0rtt(c) ==
    [c EXCEPT
       !.accepted_0rtt = FALSE,
       !.streams = zero_rtt_rejected(@),
       !.spaces[Data].pending = RetransmitsDefault,
       !.spaces[Data].sent_packets = NoPackets,
       !.in_flight = InFlightRemoveAll(@, c.spaces[Data].sent_packets),
       !.data_sent = 0,
       !.blocked_streams = {}]

\* Connection::new followed, on a client, by write_tls and init_0rtt
connection_new(side, config, t, remote_validated, peer, ticket) ==
    LET c == ConnectionNew(side, config, t, remote_validated, peer, ticket)
    IN  IF side = "Client" THEN init_0rtt(write_tls(c)) ELSE c

----------------------------------------------------------------------------
\* Congestion control and loss detection

\* Connection::congestion_blocked
congestion_blocked(c) ==
    IF c.state = "Established"
    THEN SatSub(c.congestion_window, c.in_flight.bytes) < c.mtu
    ELSE FALSE

\* Connection::blocked
blocked(c) ==
    \/ c.data_sent >= c.max_data
    \/ congestion_blocked(c)
    \/ c.unacked_data >= c.config.send_window

\* drain blocked_streams into StreamWritable events (ascending ids stand for
\* the hash set's order)
RECURSIVE wake_blocked(_)
wake_blocked(c) ==
    IF c.blocked_streams = {} THEN c
    ELSE LET id == SetMin(c.blocked_streams)
         IN  wake_blocked([push_event(c, [type |-> "StreamWritable", arg |-> id])
                              EXCEPT !.blocked_streams = @ \ {id}])

\* Connection::in_recovery
in_recovery(c, sent_time) == sent_time <= c.recovery_start_time

\* Connection::congestion_event
congestion_event(c, t, sent_time) ==
    IF in_recovery(c, sent_time) THEN c
    ELSE LET w == Max((c.congestion_window * c.config.loss_reduction_factor) \div 65536,
                      c.config.minimum_window)
         IN  [c EXCEPT !.recovery_start_time = t,
                       !.congestion_window = w,
                       !.ssthresh = w]

\* Connection::earliest_loss_time: {} or {<<time, space>>}; min_by_key keeps
\* the first (lowest) space among equal times
earliest_loss_time(c) ==
    LET have == {s \in SpaceIds : IsSome(c.spaces[s].loss_time)}
    IN  IF have = {} THEN {}
        ELSE LET t == SetMin({Get(c.spaces[s].loss_time) : s \in have})
             IN  {<<t, SetMin({s \in have : Get(c.spaces[s].loss_time) = t})>>}

\* a faulty set_loss_detection_timer: the timer is stopped when no
\* ack-eliciting packet is in flight before the handshake rule is looked at
set_loss_detection_timer_stopping_first(c) ==
    IF IsSome(earliest_loss_time(c))
    THEN timer_start(c, "LossDetection", Get(earliest_loss_time(c))[1])
    ELSE IF c.in_flight.ack_eliciting = 0
    THEN timer_stop(c, "LossDetection")
    ELSE IF \/ c.in_flight.crypto # 0
            \/ c.crypto_count # 0
            \/ (is_handshake(c) /\ is_client(c))
    THEN LET srtt == IF IsSome(c.rtt.smoothed) THEN Get(c.rtt.smoothed)
                     ELSE c.config.initial_rtt
             timeout == Max(2 * srtt, TIMER_GRANULARITY)
                        * 2 ^ Min(c.crypto_count, MAX_BACKOFF_EXPONENT)
         IN  timer_start(c, "LossDetection", c.time_of_last_sent_crypto_packet + timeout)
    ELSE timer_start(c, "LossDetection",
                     c.time_of_last_sent_ack_eliciting_packet
                       + pto(c) * 2 ^ Min(c.pto_count, MAX_BACKOFF_EXPONENT))

\* Connection::set_loss_detection_timer
set_loss_detection_timer(c) ==
    IF IsSome(earliest_loss_time(c))
    THEN timer_start(c, "LossDetection", Get(earliest_loss_time(c))[1])
    ELSE IF \/ c.in_flight.crypto # 0
            \/ c.crypto_count # 0
            \/ (is_handshake(c) /\ is_client(c))
    THEN LET srtt == IF IsSome(c.rtt.smoothed) THEN Get(c.rtt.smoothed)
                     ELSE c.config.initial_rtt
             timeout == Max(2 * srtt, TIMER_GRANULARITY)
                        * 2 ^ Min(c.crypto_count, MAX_BACKOFF_EXPONENT)
         IN  timer_start(c, "LossDetection", c.time_of_last_sent_crypto_packet + timeout)
    ELSE IF c.in_flight.ack_eliciting = 0
    THEN timer_stop(c, "LossDetection")
    ELSE timer_start(c, "LossDetection",
                     c.time_of_last_sent_ack_eliciting_packet
                       + pto(c) * 2 ^ Min(c.pto_count, MAX_BACKOFF_EXPONENT))

\* the packets detect_lost_packets deems lost, given the thresholds
LostSet(c, t, pn_space) ==
    LET sp == c.spaces[pn_space]
        rtt == IF IsSome(c.rtt.smoothed) THEN Max(Get(c.rtt.smoothed), c.rtt.latest)
               ELSE c.rtt.latest
        loss_delay == rtt + ((rtt * c.config.time_threshold) \div 65536)
        lost_send_time == t - loss_delay
        lost_pn == SatSub(sp.largest_acked_packet, c.config.packet_threshold)
    IN  {n \in DOMAIN sp.sent_packets :
            /\ n < sp.largest_acked_packet
            /\ (sp.sent_packets[n].time_sent <= lost_send_time \/ n <= lost_pn)}

\* the loss_time detect_lost_packets leaves in the space
NextLossTime(c, t, pn_space) ==
    LET sp == c.spaces[pn_space]
        rtt == IF IsSome(c.rtt.smoothed) THEN Max(Get(c.rtt.smoothed), c.rtt.latest)
               ELSE c.rtt.latest
        loss_delay == rtt + ((rtt * c.config.time_threshold) \div 65536)
        rest == {n \in DOMAIN sp.sent_packets :
                    n < sp.largest_acked_packet /\ n \notin LostSet(c, t, pn_space)}
    IN  IF rest = {} THEN {}
        ELSE {SetMin({sp.sent_packets[n].time_sent + loss_delay : n \in rest})}

\* a faulty OnPacketsLost loop: a lost packet stays in sent_packets
RECURSIVE remove_lost_keeping_sent(_, _, _)
remove_lost_keeping_sent(c, pn_space, lost) ==
    IF lost = {} THEN c
    ELSE LET n == SetMin(lost)
             info == c.spaces[pn_space].sent_packets[n]
         IN  remove_lost_keeping_sent(
                [c EXCEPT
                   !.in_flight = InFlightRemove(@, info),
                   !.spaces[pn_space].pending = RetransmitsAdd(@, info.retransmits),
                   !.gh_lost = Append(@, info.uid)],
                pn_space, lost \ {n})

\* a faulty OnPacketsLost loop: the retransmits of a lost packet are dropped
RECURSIVE remove_lost_dropping_retransmits(_, _, _)
remove_lost_dropping_retransmits(c, pn_space, lost) ==
    IF lost = {} THEN c
    ELSE LET n == SetMin(lost)
             info == c.spaces[pn_space].sent_packets[n]
             sent == c.spaces[pn_space].sent_packets
         IN  remove_lost_dropping_retransmits(
                [c EXCEPT
                   !.spaces[pn_space].sent_packets = [k \in DOMAIN sent \ {n} |-> sent[k]],
                   !.in_flight = InFlightRemove(@, info),
                   !.gh_lost = Append(@, info.uid)],
                pn_space, lost \ {n})

\* the OnPacketsLost loop: each lost packet leaves sent_packets and in_flight and
\* its retransmits join the space's pending queue
RECURSIVE remove_lost(_, _, _)
remove_lost(c, pn_space, lost) ==
    IF lost = {} THEN c
    ELSE LET n == SetMin(lost)
             info == c.spaces[pn_space].sent_packets[n]
             sent == c.spaces[pn_space].sent_packets
         IN  remove_lost(
                [c EXCEPT
                   !.spaces[pn_space].sent_packets = [k \in DOMAIN sent \ {n} |-> sent[k]],
                   !.in_flight = InFlightRemove(@, info),
                   !.spaces[pn_space].pending = RetransmitsAdd(@, info.retransmits),
                   !.gh_lost = Append(@, info.uid)],
                pn_space, lost \ {n})

\* Connection::detect_lost_packets
detect_lost_packets(c, t, pn_space) ==
    LET lost == LostSet(c, t, pn_space)
        c1 == [c EXCEPT !.spaces[pn_space].loss_time = NextLossTime(c, t, pn_space)]
    IN  IF lost = {} THEN c1
        ELSE LET largest_lost_sent ==
                     c.spaces[pn_space].sent_packets[SetMax(lost)].time_sent
                 c2 == [remove_lost(c1, pn_space, lost)
                          EXCEPT !.lost_packets = @ + Cardinality(lost)]
                 lost_ack_eliciting == c.in_flight.bytes # c2.in_flight.bytes
                 congestion_period == pto(c2) * c.config.persistent_congestion_threshold
                 in_persistent_congestion ==
                     c2.spaces[pn_space].largest_acked_packet_sent
                        < largest_lost_sent - congestion_period
             IN  IF lost_ack_eliciting
                 THEN LET c3 == congestion_event(c2, t, largest_lost_sent)
                      IN  IF in_persistent_congestion
                          THEN [c3 EXCEPT !.congestion_window = c.config.minimum_window]
                          ELSE c3
                 ELSE c2

\* the handshake retransmission branch for one space: every sent packet is
\* taken for lost
retransmit_space(c, space_id) ==
    IF ~c.spaces[space_id].crypto THEN c
    ELSE [remove_lost(c, space_id, DOMAIN c.spaces[space_id].sent_packets)
            EXCEPT !.lost_packets = @ + Cardinality(DOMAIN c.spaces[space_id].sent_packets)]

\* a faulty on_loss_detection_timeout: a client in Handshake sends a probe
\* whether or not handshake data is in flight
on_loss_detection_timeout_probing_first(c, t) ==
    set_loss_detection_timer(
        IF IsSome(earliest_loss_time(c))
        THEN detect_lost_packets(c, t, Get(earliest_loss_time(c))[2])
        ELSE IF is_handshake(c) /\ is_client(c)
        THEN [c EXCEPT !.probes = @ + 1, !.crypto_count = @ + 1]
        ELSE IF c.in_flight.crypto # 0 \/ c.crypto_count # 0
        THEN [retransmit_space(retransmit_space(c, Initial), Handshake)
                EXCEPT !.crypto_count = @ + 1]
        ELSE [c EXCEPT !.probes = @ + 2, !.pto_count = @ + 1])

\* Connection::on_loss_detection_timeout
on_loss_detection_timeout(c, t) ==
    set_loss_detection_timer(
        IF IsSome(earliest_loss_time(c))
        THEN detect_lost_packets(c, t, Get(earliest_loss_time(c))[2])
        ELSE IF c.in_flight.crypto # 0 \/ c.crypto_count # 0
        THEN [retransmit_space(retransmit_space(c, Initial), Handshake)
                EXCEPT !.crypto_count = @ + 1]
        ELSE IF is_handshake(c) /\ is_client(c)
        THEN [c EXCEPT !.probes = @ + 1, !.crypto_count = @ + 1]
        ELSE [c EXCEPT !.probes = @ + 2, !.pto_count = @ + 1])

----------------------------------------------------------------------------
\* Acknowledgement processing.  An ACK frame is
\*   [largest, ranges: the set of packet numbers it covers, delay, ecn: {} or {counts}]

\* delivery of RESET_STREAM frames confirmed (first loop of on_packet_acked)
RECURSIVE ack_rst_streams(_, _)
ack_rst_streams(c, ids) ==
    IF ids = <<>> THEN c
    ELSE LET id == Head(ids)
         IN  IF ~has_send(c, id)
             THEN [c EXCEPT !.gh_panic = TRUE]       \* get_send_mut(id).unwrap()
             ELSE IF c.streams[id].state = "ResetSent"
             THEN LET c1 == [c EXCEPT !.streams[id].state = "ResetRecvd"]
                  IN  ack_rst_streams(
                         IF c.streams[id].stop_reason = {} THEN maybe_cleanup(c1, id) ELSE c1,
                         Tail(ids))
             ELSE ack_rst_streams(c, Tail(ids))

\* a faulty second loop of on_packet_acked: a stream whose data is all
\* acknowledged counts as finished whether or not finish was called
RECURSIVE ack_stream_frames_unfinished(_, _)
ack_stream_frames_unfinished(c, frames) ==
    IF frames = <<>> THEN c
    ELSE LET frame == Head(frames)
         IN  IF ~has_send(c, frame.id) THEN ack_stream_frames_unfinished(c, Tail(frames))
             ELSE LET c1 == [c EXCEPT !.streams[frame.id].bytes_in_flight = @ - frame.len,
                                      !.unacked_data = @ - frame.len]
                      ss == c1.streams[frame.id]
                  IN  ack_stream_frames_unfinished(
                         IF ss.bytes_in_flight = 0
                         THEN push_event(
                                maybe_cleanup([c1 EXCEPT !.streams[frame.id].state = "DataRecvd"],
                                              frame.id),
                                [type |-> "StreamFinished", arg |-> frame.id])
                         ELSE c1,
                         Tail(frames))

\* delivery of STREAM frames confirmed (second loop of on_packet_acked)
RECURSIVE ack_stream_frames(_, _)
ack_stream_frames(c, frames) ==
    IF frames = <<>> THEN c
    ELSE LET frame == Head(frames)
         IN  IF ~has_send(c, frame.id) THEN ack_stream_frames(c, Tail(frames))
             ELSE LET c1 == [c EXCEPT !.streams[frame.id].bytes_in_flight = @ - frame.len,
                                      !.unacked_data = @ - frame.len]
                      ss == c1.streams[frame.id]
                  IN  ack_stream_frames(
                         IF ss.state = "DataSent" /\ ss.bytes_in_flight = 0
                         THEN push_event(
                                maybe_cleanup([c1 EXCEPT !.streams[frame.id].state = "DataRecvd"],
                                              frame.id),
                                [type |-> "StreamFinished", arg |-> frame.id])
                         ELSE c1,
                         Tail(frames))

\* a faulty on_packet_acked: the acknowledged packet stays in sent_packets
on_packet_acked_keeping_sent(c, space, packet) ==
    IF packet \notin DOMAIN c.spaces[space].sent_packets THEN c
    ELSE LET info == c.spaces[space].sent_packets[packet]
             grow == IF info.ack_eliciting /\ ~in_recovery(c, info.time_sent)
                     THEN IF c.congestion_window < c.ssthresh
                          THEN info.size
                          ELSE (c.config.max_datagram_size * info.size)
                                  \div c.congestion_window
                     ELSE 0
             c1 == [c EXCEPT
                      !.in_flight = InFlightRemove(@, info),
                      !.congestion_window = @ + grow,
                      !.gh_acked = Append(@, info.uid)]
             c2 == ack_rst_streams(c1, info.retransmits.rst_stream)
             c3 == ack_stream_frames(c2, info.retransmits.stream)
         IN  [c3 EXCEPT !.spaces[space].pending_acks = @ \ info.acks]

\* a faulty on_packet_acked: the window grows by the packet's size above
\* ssthresh too
on_packet_acked_adding_size(c, space, packet) ==
    IF packet \notin DOMAIN c.spaces[space].sent_packets THEN c
    ELSE LET sent == c.spaces[space].sent_packets
             info == sent[packet]
             grow == IF info.ack_eliciting /\ ~in_recovery(c, info.time_sent)
                     THEN info.size
                     ELSE 0
             c1 == [c EXCEPT
                      !.spaces[space].sent_packets = [k \in DOMAIN sent \ {packet} |-> sent[k]],
                      !.in_flight = InFlightRemove(@, info),
                      !.congestion_window = @ + grow,
                      !.gh_acked = Append(@, info.uid)]
             c2 == ack_rst_streams(c1, info.retransmits.rst_stream)
             c3 == ack_stream_frames(c2, info.retransmits.stream)
         IN  [c3 EXCEPT !.spaces[space].pending_acks = @ \ info.acks]

\* Connection::on_packet_acked
on_packet_acked(c, space, packet) ==
    IF packet \notin DOMAIN c.spaces[space].sent_packets THEN c
    ELSE LET sent == c.spaces[space].sent_packets
             info == sent[packet]
             grow == IF info.ack_eliciting /\ ~in_recovery(c, info.time_sent)
                     THEN IF c.congestion_window < c.ssthresh
                          THEN info.size
                          ELSE (c.config.max_datagram_size * info.size)
                                  \div c.congestion_window
                     ELSE 0
             c1 == [c EXCEPT
                      !.spaces[space].sent_packets = [k \in DOMAIN sent \ {packet} |-> sent[k]],
                      !.in_flight = InFlightRemove(@, info),
                      !.congestion_window = @ + grow,
                      !.gh_acked = Append(@, info.uid)]
             c2 == ack_rst_streams(c1, info.retransmits.rst_stream)
             c3 == ack_stream_frames(c2, info.retransmits.stream)
         IN  [c3 EXCEPT !.spaces[space].pending_acks = @ \ info.acks]

\* the packets an ACK newly acknowledges, in the order the source visits them:
\* the frame's ranges from the highest down, each range in ascending order
RECURSIVE newly_acked_seq(_, _)
newly_acked_seq(ranges, sent) ==
    IF ranges = {} THEN <<>>
    ELSE LET hi == SetMax(ranges)
             lo == SetMin({l \in ranges : \A k \in l..hi : k \in ranges})
             run == [i \in 1..(hi - lo + 1) |-> lo + i - 1]
         IN  SelectSeq(run, LAMBDA n : n \in sent)
                \o newly_acked_seq(ranges \ (lo..hi), sent)

RECURSIVE ack_all(_, _, _)
ack_all(c, space, packets) ==
    IF packets = <<>> THEN c
    ELSE ack_all(on_packet_acked(c, space, Head(packets)), space, Tail(packets))

\* PacketSpace::detect_ecn: "error", "congestion" or "ok"
detect_ecn_verdict(sp, newly_acked, ecn) ==
    LET d0 == ecn.ect0 - sp.ecn_feedback.ect0
        d1 == ecn.ect1 - sp.ecn_feedback.ect1
        dce == ecn.ce - sp.ecn_feedback.ce
    IN  IF d0 < 0 \/ d1 < 0 \/ dce < 0 THEN "error"
        ELSE IF d0 + d1 + dce < newly_acked THEN "error"
        ELSE IF d0 + dce < newly_acked \/ d1 # 0 THEN "error"
        ELSE IF dce # 0 THEN "congestion" ELSE "ok"

\* a faulty process_ecn: a failed verification does not halt ECN
process_ecn_not_halting(c, t, space, newly_acked, ecn, largest_sent_time) ==
    LET v == detect_ecn_verdict(c.spaces[space], newly_acked, ecn)
        c1 == [c EXCEPT !.spaces[space].ecn_feedback = ecn,
                        !.gh_ecn_decreased = @ \/ ecn.ect0 < c.spaces[space].ecn_feedback.ect0
                                               \/ ecn.ect1 < c.spaces[space].ecn_feedback.ect1
                                               \/ ecn.ce < c.spaces[space].ecn_feedback.ce]
    IN  IF v = "congestion" THEN congestion_event(c1, t, largest_sent_time) ELSE c1

\* Connection::process_ecn
process_ecn(c, t, space, newly_acked, ecn, largest_sent_time) ==
    LET v == detect_ecn_verdict(c.spaces[space], newly_acked, ecn)
        c0 == [c EXCEPT !.gh_ecn_decreased = @ \/ ecn.ect0 < c.spaces[space].ecn_feedback.ect0
                                               \/ ecn.ect1 < c.spaces[space].ecn_feedback.ect1
                                               \/ ecn.ce < c.spaces[space].ecn_feedback.ce]
    IN  IF v = "error" THEN [c0 EXCEPT !.sending_ecn = FALSE]
        ELSE LET c1 == [c0 EXCEPT !.spaces[space].ecn_feedback = ecn]
             IN  IF v = "congestion" THEN congestion_event(c1, t, largest_sent_time)
                 ELSE c1

\* on_ack_received: a new largest acknowledged packet is recorded
ack_largest(c, space, ack) ==
    IF ack.largest > c.spaces[space].largest_acked_packet
    THEN [c EXCEPT
            !.spaces[space].largest_acked_packet = ack.largest,
            !.spaces[space].largest_acked_packet_sent =
                IF ack.largest \in DOMAIN c.spaces[space].sent_packets
                THEN c.spaces[space].sent_packets[ack.largest].time_sent ELSE @]
    ELSE c

\* on_ack_received: the RTT sample taken when the largest packet is ack-eliciting
ack_rtt(c, t, space, ack) ==
    IF /\ ack.largest \in DOMAIN c.spaces[space].sent_packets
       /\ c.spaces[space].sent_packets[ack.largest].ack_eliciting
    THEN [c EXCEPT !.rtt =
             RttUpdate(@, Min(ack.delay, max_ack_delay(c)),
                       SatSub(t, c.spaces[space].sent_packets[ack.largest].time_sent))]
    ELSE c

\* on_ack_received: the client's handshake keys are scheduled for discard
ack_key_discard(c, t, space) ==
    IF /\ space = Handshake
       /\ ~is_handshake(c)
       /\ is_client(c)
       /\ c.in_flight.crypto = 0
       /\ c.spaces[Handshake].pending.crypto = <<>>
    THEN set_key_discard_timer(c, t)
    ELSE c

\* on_ack_received: "Explicit congestion notification"
ack_ecn(c, t, space, ack, new_largest, newly_acked) ==
    IF c.sending_ecn
    THEN IF IsSome(ack.ecn)
         THEN IF new_largest
              THEN process_ecn(c, t, space, newly_acked, Get(ack.ecn),
                               c.spaces[space].largest_acked_packet_sent)
              ELSE c
         ELSE [c EXCEPT !.sending_ecn = FALSE]
    ELSE c

\* on_ack_received: writers are woken when the ACK unblocked the connection
ack_wake(c, was_blocked) ==
    IF was_blocked /\ ~blocked(c) THEN wake_blocked(c) ELSE c

\* on_ack_received: everything after "if newly_acked.is_empty() { return }"
ack_newly(c, t, space, ack, new_largest, was_blocked, newly_acked) ==
    IF newly_acked = <<>> THEN c
    ELSE ack_wake(
           set_loss_detection_timer(
             ack_ecn(
               [detect_lost_packets(
                   ack_key_discard(ack_all(c, space, newly_acked), t, space),
                   t, space)
                  EXCEPT !.crypto_count = 0, !.pto_count = 0],
               t, space, ack, new_largest, Len(newly_acked))),
           was_blocked)

\* a faulty on_ack_received: crypto_count and pto_count are left as they were
on_ack_received_keeping_counts(c, t, space, ack) ==
    [ack_newly(ack_rtt(ack_largest(c, space, ack), t, space, ack),
               t, space, ack,
               ack.largest > c.spaces[space].largest_acked_packet,
               blocked(c),
               newly_acked_seq(ack.ranges, DOMAIN c.spaces[space].sent_packets))
       EXCEPT !.crypto_count = c.crypto_count, !.pto_count = c.pto_count]

\* Connection::on_ack_received
on_ack_received(c, t, space, ack) ==
    ack_newly(ack_rtt(ack_largest(c, space, ack), t, space, ack),
              t, space, ack,
              ack.largest > c.spaces[space].largest_acked_packet,
              blocked(c),
              newly_acked_seq(ack.ranges, DOMAIN c.spaces[space].sent_packets))

----------------------------------------------------------------------------
\* Frame emission.  The packet under construction is a builder record
\*   [c: the connection, sent: Retransmits carried, acks: ACK ranges carried,
\*    frames: the frame types written, len: buf.len()]
\* Sizes are in size units: every frame costs FRAME_BOUND plus its data.

put(b, ty, size) == [b EXCEPT !.frames = @ \cup {ty}, !.len = @ + size]

max_size(c) == c.mtu - TAG_LEN

\* CRYPTO loop of populate_packet
RECURSIVE put_crypto(_, _)
put_crypto(b, space_id) ==
    LET q == b.c.spaces[space_id].pending.crypto
    IN  IF ~(b.len + FRAME_BOUND < max_size(b.c)) \/ q = <<>> THEN b
        ELSE LET frame == Head(q)
                 len == Min(frame.len, max_size(b.c) - b.len - FRAME_BOUND)
                 rest == IF len < frame.len
                         THEN << [offset |-> frame.offset + len, len |-> frame.len - len] >>
                         ELSE <<>>
                 b1 == put(b, "CRYPTO", FRAME_BOUND + len)
             IN  put_crypto(
                    [b1 EXCEPT !.c.spaces[space_id].pending.crypto = rest \o Tail(q),
                               !.sent.crypto = Append(@, [offset |-> frame.offset, len |-> len])],
                    space_id)

\* RESET_STREAM loop of populate_packet (Vec::pop takes the last entry)
RECURSIVE put_rst_stream(_, _)
put_rst_stream(b, space_id) ==
    LET q == b.c.spaces[space_id].pending.rst_stream
    IN  IF ~(b.len + FRAME_BOUND < max_size(b.c) /\ space_id = Data) \/ q = <<>> THEN b
        ELSE LET id == q[Len(q)]
                 b1 == [b EXCEPT !.c.spaces[space_id].pending.rst_stream =
                                     SubSeq(q, 1, Len(q) - 1)]
             IN  put_rst_stream(
                    IF ~has_send(b.c, id) THEN b1
                    ELSE [put(b1, "RESET_STREAM", FRAME_BOUND)
                            EXCEPT !.sent.rst_stream = Append(@, id)],
                    space_id)

\* STOP_SENDING loop of populate_packet
RECURSIVE put_stop_sending(_, _)
put_stop_sending(b, space_id) ==
    LET q == b.c.spaces[space_id].pending.stop_sending
    IN  IF ~(b.len + FRAME_BOUND < max_size(b.c) /\ space_id = Data) \/ q = <<>> THEN b
        ELSE put_stop_sending(
                [put(b, "STOP_SENDING", FRAME_BOUND)
                   EXCEPT !.c.spaces[space_id].pending.stop_sending = SubSeq(q, 1, Len(q) - 1),
                          !.sent.stop_sending = Append(@, q[Len(q)])],
                space_id)

\* MAX_STREAM_DATA loop of populate_packet
RECURSIVE put_max_stream_data(_, _)
put_max_stream_data(b, space_id) ==
    LET q == b.c.spaces[space_id].pending.max_stream_data
    IN  IF ~(b.len + FRAME_BOUND < max_size(b.c)) \/ q = {} THEN b
        ELSE put_max_stream_data(
                [put(b, "MAX_STREAM_DATA", FRAME_BOUND)
                   EXCEPT !.c.spaces[space_id].pending.max_stream_data = @ \ {SetMin(q)},
                          !.sent.max_stream_data = @ \cup {SetMin(q)}],
                space_id)

\* NEW_CONNECTION_ID loop of populate_packet
RECURSIVE put_new_cids(_, _)
put_new_cids(b, space_id) ==
    LET q == b.c.spaces[space_id].pending.new_cids
    IN  IF ~(b.len + FRAME_BOUND < max_size(b.c)) \/ q = <<>> THEN b
        ELSE put_new_cids(
                [put(b, "NEW_CONNECTION_ID", FRAME_BOUND)
                   EXCEPT !.c.spaces[space_id].pending.new_cids = SubSeq(q, 1, Len(q) - 1),
                          !.sent.new_cids = Append(@, q[Len(q)])],
                space_id)

\* RETIRE_CONNECTION_ID loop of populate_packet
RECURSIVE put_retire_cids(_, _)
put_retire_cids(b, space_id) ==
    LET q == b.c.spaces[space_id].pending.retire_cids
    IN  IF ~(b.len + FRAME_BOUND < max_size(b.c)) \/ q = <<>> THEN b
        ELSE put_retire_cids(
                [put(b, "RETIRE_CONNECTION_ID", FRAME_BOUND)
                   EXCEPT !.c.spaces[space_id].pending.retire_cids = SubSeq(q, 1, Len(q) - 1),
                          !.sent.retire_cids = Append(@, q[Len(q)])],
                space_id)

\* STREAM loop of populate_packet
RECURSIVE put_stream(_, _)
put_stream(b, space_id) ==
    LET q == b.c.spaces[space_id].pending.stream
    IN  IF ~(b.len + FRAME_BOUND < max_size(b.c)) \/ q = <<>> THEN b
        ELSE LET stream == Head(q)
                 b1 == [b EXCEPT !.c.spaces[space_id].pending.stream = Tail(q)]
             IN  IF ~has_send(b.c, stream.id) \/ was_reset(b.c.streams[stream.id])
                 THEN put_stream([b1 EXCEPT !.c.unacked_data = @ - stream.len], space_id)
                 ELSE LET len == Min(stream.len, max_size(b.c) - b.len - FRAME_BOUND)
                          fin == stream.fin /\ len = stream.len
                          rest == IF len < stream.len
                                  THEN << [id |-> stream.id, offset |-> stream.offset + len,
                                           len |-> stream.len - len, fin |-> stream.fin] >>
                                  ELSE <<>>
                      IN  put_stream(
                             [put(b1, "STREAM", FRAME_BOUND + len) EXCEPT
                                !.c.spaces[space_id].pending.stream = rest \o Tail(q),
                                !.sent.stream = Append(@, [id |-> stream.id,
                                                           offset |-> stream.offset,
                                                           len |-> len, fin |-> fin])],
                             space_id)

\* populate_packet: PING
put_ping(b, space_id) ==
    IF space_id = Data /\ b.c.spaces[space_id].crypto /\ b.c.ping_pending
    THEN [put(b, "PING", FRAME_BOUND) EXCEPT !.c.ping_pending = FALSE]
    ELSE b

\* populate_packet: ACK
put_ack(b, space_id) ==
    IF b.c.spaces[space_id].pending_acks # {}
    THEN [put(b, "ACK", FRAME_BOUND) EXCEPT !.acks = b.c.spaces[space_id].pending_acks]
    ELSE b

\* populate_packet: PATH_CHALLENGE
put_path_challenge(b, space_id) ==
    IF b.len + FRAME_BOUND < max_size(b.c) /\ space_id = Data /\ IsSome(b.c.path_challenge)
    THEN [put(b, "PATH_CHALLENGE", FRAME_BOUND) EXCEPT !.c.path_challenge_pending = FALSE]
    ELSE b

\* populate_packet: PATH_RESPONSE
put_path_response(b, space_id) ==
    IF b.len + FRAME_BOUND < max_size(b.c) /\ space_id = Data /\ IsSome(b.c.path_response)
    THEN [put(b, "PATH_RESPONSE", FRAME_BOUND) EXCEPT
            !.c.path_response = {}, !.token = {Get(b.c.path_response).token}]
    ELSE b

\* populate_packet: CRYPTO, left out of 0-RTT packets
put_crypto_frames(b, space_id) ==
    IF space_id = Data /\ ~b.c.spaces[space_id].crypto THEN b ELSE put_crypto(b, space_id)

\* populate_packet: MAX_DATA
put_max_data(b, space_id) ==
    IF b.c.spaces[space_id].pending.max_data /\ b.len + FRAME_BOUND < max_size(b.c)
    THEN [put(b, "MAX_DATA", FRAME_BOUND)
            EXCEPT !.c.spaces[space_id].pending.max_data = FALSE,
                   !.sent.max_data = TRUE]
    ELSE b

\* populate_packet: MAX_STREAMS_UNI
put_max_uni_stream_id(b, space_id) ==
    IF b.c.spaces[space_id].pending.max_uni_stream_id /\ b.len + FRAME_BOUND < max_size(b.c)
    THEN [put(b, "MAX_STREAMS_UNI", FRAME_BOUND)
            EXCEPT !.c.spaces[space_id].pending.max_uni_stream_id = FALSE,
                   !.sent.max_uni_stream_id = TRUE]
    ELSE b

\* populate_packet: MAX_STREAMS_BIDI
put_max_bi_stream_id(b, space_id) ==
    IF b.c.spaces[space_id].pending.max_bi_stream_id /\ b.len + FRAME_BOUND < max_size(b.c)
    THEN [put(b, "MAX_STREAMS_BIDI", FRAME_BOUND)
            EXCEPT !.c.spaces[space_id].pending.max_bi_stream_id = FALSE,
                   !.sent.max_bi_stream_id = TRUE]
    ELSE b

\* Connection::populate_packet
populate_packet(c, t, space_id, header_len) ==
    put_stream(
     put_retire_cids(
      put_new_cids(
       put_max_bi_stream_id(
        put_max_uni_stream_id(
         put_max_stream_data(
          put_max_data(
           put_stop_sending(
            put_rst_stream(
             put_crypto_frames(
              put_path_response(
               put_path_challenge(
                put_ack(
                 put_ping(
                   [c |-> c, sent |-> RetransmitsDefault, acks |-> {}, frames |-> {},
                    len |-> header_len, token |-> {}],
                   space_id),
                 space_id),
                space_id),
               space_id),
              space_id),
             space_id),
            space_id),
           space_id),
          space_id),
         space_id),
        space_id),
       space_id),
      space_id),
     space_id)

----------------------------------------------------------------------------
\* Transmission

\* Connection::can_send_1rtt
can_send_1rtt(c) ==
    \/ c.path_challenge_pending
    \/ c.ping_pending
    \/ IsSome(c.path_response)
    \/ c.offpath_responses # <<>>

\* on_packet_sent: the packet enters sent_packets and the in-flight counters
sent_record(c, space, packet_number, packet) ==
    [c EXCEPT
       !.gh_sent = @ + 1,
       !.in_flight = InFlightInsert(@, packet),
       !.spaces[space].sent_packets =
           [n \in DOMAIN @ \cup {packet_number} |->
               IF n = packet_number THEN packet ELSE @[n]]]

\* on_packet_sent: an ack-eliciting packet may restart the idle timer
sent_ack_eliciting(c, t, packet) ==
    IF packet.size # 0 /\ packet.ack_eliciting
    THEN [(IF c.permit_idle_reset THEN reset_idle_timeout(c, t) ELSE c)
            EXCEPT !.time_of_last_sent_ack_eliciting_packet = t,
                   !.permit_idle_reset = FALSE]
    ELSE c

\* on_packet_sent: crypto packet time and the loss detection timer
sent_in_flight(c, t, packet) ==
    IF packet.size # 0
    THEN set_loss_detection_timer(
            IF packet.is_crypto_packet
            THEN [c EXCEPT !.time_of_last_sent_crypto_packet = t] ELSE c)
    ELSE c

\* on_packet_sent: the server's handshake keys are scheduled for discard
sent_key_discard(c, t, space) ==
    IF space = Handshake /\ ~is_handshake(c) /\ is_server(c)
       /\ ~c.spaces[Handshake].permit_ack_only
    THEN set_key_discard_timer(c, t)
    ELSE c

\* Connection::on_packet_sent; the SentPacket gets the next history id
on_packet_sent(c, t, space, packet_number, packet0) ==
    sent_key_discard(
      sent_in_flight(
        sent_ack_eliciting(
          reset_keep_alive(
            sent_record(c, space, packet_number, [packet0 EXCEPT !.uid = c.gh_sent + 1]),
            t),
          t, packet0),
        t, packet0),
      t, space)

\* PacketSpace::get_tx_number: hand out the next packet number
get_tx_number(c, space_id) == [c EXCEPT !.spaces[space_id].next_packet_number = @ + 1]

\* the space poll_transmit picks while the connection is open: {} for None
transmit_space(c) ==
    LET ready == {x \in SpaceIds : c.spaces[x].crypto /\ can_send(c.spaces[x])}
    IN  IF ready # {} THEN {SetMin(ready)}
        ELSE IF c.spaces[Data].crypto /\ can_send_1rtt(c) THEN {Data}
        ELSE IF c.probes # 0 THEN {c.highest_space}
        ELSE IF c.zero_rtt_crypto /\ is_client(c)
                /\ (can_send(c.spaces[Data]) \/ can_send_1rtt(c)) THEN {Data}
        ELSE {}

\* poll_transmit: a client sending its first Handshake packet drops Initial keys
tx_discard_initial(c, space_id) ==
    IF c.spaces[Initial].crypto /\ space_id = Handshake /\ is_client(c)
    THEN discard_space(c, Initial) ELSE c

\* poll_transmit: "if let Some(ref mut prev) = self.prev_crypto"
tx_prev_crypto(c) ==
    IF IsSome(c.prev_crypto)
    THEN [c EXCEPT !.prev_crypto = {[Get(@) EXCEPT !.update_unacked = FALSE]}]
    ELSE c

\* poll_transmit: a 1-RTT probe with nothing to send carries a PING
tx_probe_ping(c, space_id, probe, ack_only) ==
    IF probe /\ ack_only /\ space_id = Data /\ c.spaces[Data].crypto
    THEN [c EXCEPT !.ping_pending = TRUE] ELSE c

\* a faulty tx_payload: the close branch is missing, so a closed connection
\* goes on to write whatever is pending
tx_payload_without_close(c, t, space_id, closing) ==
    IF c.offpath_responses # <<>>
    THEN [c |-> [c EXCEPT !.offpath_responses = SubSeq(@, 1, Len(@) - 1)],
          sent |-> RetransmitsDefault, acks |-> {},
          frames |-> {"PATH_RESPONSE"}, len |-> HEADER_LEN + FRAME_BOUND,
          token |-> {c.offpath_responses[Len(c.offpath_responses)][2]}]
    ELSE populate_packet(c, t, space_id, HEADER_LEN)

\* poll_transmit: the payload, a close frame, an off-path PATH_RESPONSE or
\* populate_packet
tx_payload(c, t, space_id, closing) ==
    IF closing
    THEN [c |-> c, sent |-> RetransmitsDefault, acks |-> {},
          frames |-> {IF c.close_reason = "Application"
                      THEN "APPLICATION_CLOSE" ELSE "CONNECTION_CLOSE"},
          len |-> HEADER_LEN + FRAME_BOUND, token |-> {}]
    ELSE IF c.offpath_responses # <<>>
    THEN [c |-> [c EXCEPT !.offpath_responses = SubSeq(@, 1, Len(@) - 1)],
          sent |-> RetransmitsDefault, acks |-> {},
          frames |-> {"PATH_RESPONSE"}, len |-> HEADER_LEN + FRAME_BOUND,
          token |-> {c.offpath_responses[Len(c.offpath_responses)][2]}]
    ELSE populate_packet(c, t, space_id, HEADER_LEN)

\* poll_transmit: padding, encryption, on_packet_sent and the Transmit.  An
\* Initial of a client is padded to the full size; a payload of at most a PING
\* is padded up to the header-protection sample.
tx_finish(b, t, space_id, remote, recorded, exact_number, ack_only, has_keys, initial_pad) ==
    LET sample_pad == b.len <= HEADER_LEN + FRAME_BOUND /\ b.frames \subseteq {"PING"}
        buf_len == (IF initial_pad THEN b.c.mtu - TAG_LEN
                    ELSE IF sample_pad THEN HEADER_LEN + FRAME_BOUND
                    ELSE b.len) + TAG_LEN
    IN  [ c |-> [(IF recorded
                  THEN on_packet_sent(
                         [b.c EXCEPT !.gh_panic = @ \/ ~has_keys,
                                     !.spaces[space_id].permit_ack_only = @ /\ b.acks = {}],
                         t, space_id, exact_number,
                         [ acks |-> b.acks,
                           time_sent |-> t,
                           size |-> IF initial_pad \/ sample_pad \/ ~ack_only
                                    THEN buf_len ELSE 0,
                           is_crypto_packet |-> space_id # Data /\ ~ack_only,
                           ack_eliciting |-> ~ack_only,
                           retransmits |-> b.sent,
                           uid |-> 0 ])
                  ELSE [b.c EXCEPT !.gh_panic = @ \/ ~has_keys])
                   EXCEPT !.total_sent = @ + buf_len],
          out |-> {[ destination |-> remote,
                     space |-> space_id,
                     number |-> exact_number,
                     frames |-> b.frames,
                     token |-> b.token,
                     size |-> buf_len,
                     recorded |-> recorded,
                     ecn |-> b.c.sending_ecn ]} ]

\* poll_transmit from the packet header on
tx_packet(c, t, space_id, closing, exact_number, ack_only0) ==
    tx_finish(tx_payload(c, t, space_id, closing), t, space_id,
              IF ~closing /\ c.offpath_responses # <<>>
              THEN c.offpath_responses[Len(c.offpath_responses)][1] ELSE c.remote,
              ~closing /\ c.offpath_responses = <<>>,
              exact_number,
              ack_only0 /\ ~c.ping_pending,
              c.spaces[space_id].crypto
                 \/ (~closing /\ space_id = Data /\ c.zero_rtt_crypto),
              is_client(c) /\ space_id = Initial)

\* the part of poll_transmit after "a packet will definitely be sent"
build_transmit(c0, t, space_id, closing, probe, ack_only0) ==
    tx_packet(
      tx_probe_ping(
        get_tx_number(
          tx_prev_crypto(
            tx_discard_initial([c0 EXCEPT !.probes = SatSub(@, 1)], space_id)),
          space_id),
        space_id, probe, ack_only0),
      t, space_id, closing, c0.spaces[space_id].next_packet_number, ack_only0)

\* Connection::poll_transmit; result is [c: the connection, out: Option<Transmit>]
poll_transmit(c, t) ==
    LET none == [c |-> c, out |-> {}]
    IN  IF c.state \in {"Draining", "Drained"} THEN none
        ELSE IF c.state = "Closed" /\ ~c.close THEN none
        ELSE IF c.state # "Closed" /\ transmit_space(c) = {} THEN none
        ELSE
          LET closing == c.state = "Closed"
              c0 == IF closing THEN [c EXCEPT !.close = FALSE] ELSE c
              space_id == IF closing THEN c.highest_space ELSE Get(transmit_space(c))
              probe == ~closing /\ c0.probes # 0
              ack_only == RetransmitsIsEmpty(c0.spaces[space_id].pending)
                          /\ (space_id = Data => c0.path_response = {})
          IN  IF space_id = Data /\ ~probe /\ ~ack_only /\ congestion_blocked(c0)
              THEN [c |-> c0, out |-> {}]
              ELSE IF is_handshake(c0) /\ ~c0.remote_validated /\ is_server(c0)
                      /\ c0.total_recvd * 3 < c0.total_sent + c0.mtu
              THEN [c |-> c0, out |-> {}]
              ELSE build_transmit(c0, t, space_id, closing, probe, ack_only)

----------------------------------------------------------------------------
\* Frames of an incoming packet.  Every frame is a record of one shape; the
\* fields a frame type does not use stay at their defaults.

Frame(ty) ==
    [ type |-> ty, largest |-> 0, ranges |-> {}, delay |-> 0, ecn |-> {},
      id |-> 0, offset |-> 0, len |-> 0, token |-> 0 ]

AckFrame(largest, ranges) == [Frame("ACK") EXCEPT !.largest = largest, !.ranges = ranges]

CryptoFrame(offset, len) == [Frame("CRYPTO") EXCEPT !.offset = offset, !.len = len]

MaxDataFrame(bytes) == [Frame("MAX_DATA") EXCEPT !.offset = bytes]

MaxStreamDataFrame(id, offset) ==
    [Frame("MAX_STREAM_DATA") EXCEPT !.id = id, !.offset = offset]

StopSendingFrame(id) == [Frame("STOP_SENDING") EXCEPT !.id = id]

PathFrame(ty, token) == [Frame(ty) EXCEPT !.token = token]

\* the result of a fallible step: the connection and the error raised, if any
Ok(c) == [c |-> c, err |-> "none"]

Err(c, e) == [c |-> c, err |-> e]

\* Connection::read_tls; a CRYPTO frame carries a whole flight of the peer
read_tls(c, space, crypto) ==
    LET expected == IF ~is_handshake(c) THEN Data
                    ELSE IF c.highest_space = Initial THEN Initial
                    ELSE Handshake
        read == c.spaces[space].crypto_stream
    IN  IF space < expected /\ crypto.offset + crypto.len > read
        THEN Err(c, "PROTOCOL_VIOLATION")
        ELSE IF crypto.offset <= read /\ crypto.offset + crypto.len > read
        THEN Ok([c EXCEPT !.spaces[space].crypto_stream = crypto.offset + crypto.len,
                          !.tls = TlsReadHandshake(@, c.side, space)])
        ELSE Ok(c)

\* the effect of a CONNECTION_CLOSE or APPLICATION_CLOSE frame while open
peer_close(c, frame) ==
    [push_event(c, ConnectionLost(IF frame.type = "APPLICATION_CLOSE"
                                  THEN "ApplicationClosed" ELSE "ConnectionClosed"))
        EXCEPT !.state = "Draining"]

\* the frame loop of process_early_payload; done is TRUE after a close frame
RECURSIVE early_frames(_, _, _, _)
early_frames(c, t, space, frames) ==
    IF frames = <<>> THEN [c |-> c, err |-> "none", done |-> FALSE]
    ELSE LET frame == Head(frames)
             c1 == IF frame.type \in {"ACK", "PADDING"} THEN c
                   ELSE [c EXCEPT !.spaces[space].permit_ack_only = TRUE]
         IN  CASE frame.type = "PADDING" -> early_frames(c1, t, space, Tail(frames))
               [] frame.type = "CRYPTO" ->
                    LET r == read_tls(c1, space, frame)
                    IN  IF r.err # "none" THEN [c |-> r.c, err |-> r.err, done |-> TRUE]
                        ELSE early_frames(r.c, t, space, Tail(frames))
               [] frame.type = "ACK" ->
                    early_frames(on_ack_received(c1, t, space, frame), t, space, Tail(frames))
               [] frame.type \in {"CONNECTION_CLOSE", "APPLICATION_CLOSE"} ->
                    [c |-> peer_close(c1, frame), err |-> "none", done |-> TRUE]
               [] OTHER -> [c |-> c1, err |-> "PROTOCOL_VIOLATION", done |-> TRUE]

\* process_early_payload after its frame loop: write_tls unless it returned
early_done(r) ==
    IF r.done THEN [c |-> r.c, err |-> r.err] ELSE Ok(write_tls(r.c))

\* Connection::process_early_payload
process_early_payload(c, t, packet) ==
    early_done(early_frames(c, t, packet.space, packet.frames))

\* the IP address of a socket address: 0 and 1 are two ports of one host
Ip(remote) == IF remote = 2 THEN 1 ELSE 0

\* Connection::migrate
migrate(c, t, remote) ==
    LET c1 == IF Ip(remote) # Ip(c.remote)
              THEN [c EXCEPT !.rtt = RttNew,
                             !.congestion_window = c.config.initial_window,
                             !.ssthresh = U64_MAX]
              ELSE c
    IN  [timer_start(c1, "PathValidation", t + 3 * Max(pto(c1), 2 * c.config.initial_rtt))
           EXCEPT !.prev_remote = {c.remote},
                  !.remote = remote,
                  !.remote_validated = FALSE,
                  !.path_challenge = {1},
                  !.path_challenge_pending = TRUE]

----------------------------------------------------------------------------
\* Streams: the application's side

\* Streams::is_local_unopened
is_local_unopened(c, id) == id >= c.next_stream

\* Connection::open (a stream this side may send on); MaxStreams bounds the
\* peer's stream-count limit
MaxStreams == 2

open(c) ==
    IF c.next_stream >= MaxStreams THEN c
    ELSE [c EXCEPT
            !.next_stream = @ + 1,
            !.streams = [i \in DOMAIN @ \cup {c.next_stream} |->
                            IF i = c.next_stream
                            THEN SendNew(c.params.initial_max_stream_data)
                            ELSE @[i]]]

\* Connection::queue_stream_data
queue_stream_data(c, stream, len) ==
    LET ss == c.streams[stream]
    IN  [c EXCEPT
           !.gh_panic = @ \/ ss.state # "Ready",
           !.streams[stream].offset = @ + len,
           !.streams[stream].bytes_in_flight = @ + len,
           !.data_sent = @ + len,
           !.unacked_data = @ + len,
           !.spaces[Data].pending.stream =
               Append(@, [id |-> stream, offset |-> ss.offset, len |-> len, fin |-> FALSE])]

\* Send::write_budget: "stopped", "blocked" or the budget max_data - offset
write_budget(ss) ==
    IF IsSome(ss.stop_reason) THEN "stopped"
    ELSE IF ss.max_data - ss.offset = 0 THEN "blocked"
    ELSE "ok"

\* a faulty write: the connection-level budget is left out of the minimum
write_without_conn_budget(c, stream, len) ==
    IF is_closed(c) THEN [c |-> c, n |-> 0, res |-> "Blocked"]
    ELSE IF blocked(c)
    THEN [c |-> [c EXCEPT !.blocked_streams = @ \cup {stream}], n |-> 0, res |-> "Blocked"]
    ELSE IF ~has_send(c, stream) THEN [c |-> c, n |-> 0, res |-> "UnknownStream"]
    ELSE LET ss == c.streams[stream]
             budget_res == write_budget(ss)
         IN  IF budget_res = "stopped"
             THEN [c |-> maybe_cleanup([c EXCEPT !.streams[stream].stop_reason = {}], stream),
                   n |-> 0, res |-> "Stopped"]
             ELSE IF budget_res = "blocked" THEN [c |-> c, n |-> 0, res |-> "Blocked"]
             ELSE LET n == Min(ss.max_data - ss.offset, len)
                  IN  [c |-> queue_stream_data(c, stream, n), n |-> n, res |-> "Ok"]

\* Connection::write of len bytes; result is [c, n: bytes queued, res]
write(c, stream, len) ==
    IF is_closed(c) THEN [c |-> c, n |-> 0, res |-> "Blocked"]
    ELSE IF blocked(c)
    THEN [c |-> [c EXCEPT !.blocked_streams = @ \cup {stream}], n |-> 0, res |-> "Blocked"]
    ELSE IF ~has_send(c, stream) THEN [c |-> c, n |-> 0, res |-> "UnknownStream"]
    ELSE LET ss == c.streams[stream]
             budget_res == write_budget(ss)
         IN  IF budget_res = "stopped"
             THEN [c |-> maybe_cleanup([c EXCEPT !.streams[stream].stop_reason = {}], stream),
                   n |-> 0, res |-> "Stopped"]
             ELSE IF budget_res = "blocked" THEN [c |-> c, n |-> 0, res |-> "Blocked"]
             ELSE LET stream_budget == ss.max_data - ss.offset
                      conn_budget == Min(c.max_data - c.data_sent,
                                         c.config.send_window - c.unacked_data)
                      n == Min(Min(conn_budget, stream_budget), len)
                  IN  [c |-> queue_stream_data(c, stream, n), n |-> n, res |-> "Ok"]

\* Connection::finish
RECURSIVE mark_fin(_, _, _)
mark_fin(q, id, offset) ==
    IF q = <<>> THEN <<>>
    ELSE IF Head(q).id = id /\ Head(q).offset + Head(q).len = offset
    THEN << [Head(q) EXCEPT !.fin = TRUE] >> \o Tail(q)
    ELSE << Head(q) >> \o mark_fin(Tail(q), id, offset)

finish(c, id) ==
    LET ss == c.streams[id]
        q == c.spaces[Data].pending.stream
        marked == mark_fin(q, id, ss.offset)
    IN  [c EXCEPT
           !.gh_panic = @ \/ ss.state # "Ready",
           !.streams[id].state = "DataSent",
           !.spaces[Data].pending.stream =
               IF marked # q THEN marked
               ELSE Append(q, [id |-> id, offset |-> ss.offset, len |-> 0, fin |-> TRUE])]

\* Connection::reset
reset(c, stream_id) ==
    IF ~has_send(c, stream_id) THEN c
    ELSE IF c.streams[stream_id].state \in {"DataRecvd", "ResetSent", "ResetRecvd"} THEN c
    ELSE [c EXCEPT !.streams[stream_id].state = "ResetSent",
                   !.streams[stream_id].stop_reason = {},
                   !.spaces[Data].pending.rst_stream = Append(@, stream_id)]

----------------------------------------------------------------------------
\* Receiving.  An incoming packet is a record
\*   [hdr: "Initial" | "Handshake" | "ZeroRtt" | "Short" | "Retry" | "VersionNegotiate",
\*    space, number, key_phase, key: the generation of the 1-RTT keys it was
\*    sealed with, sealed: the AEAD tag verifies under those keys,
\*    reserved: reserved header bits are set, reset: the payload ends with the
\*    stateless reset token, src_cid, odcid, frames, len]

\* one frame of process_payload, after the bookkeeping common to all frames
payload_frame(c, t, remote, number, frame) ==
    CASE frame.type = "INVALID" -> Err(c, "FRAME_ENCODING_ERROR")
      [] frame.type = "CRYPTO" -> read_tls(c, Data, frame)
      [] frame.type = "ACK" -> Ok(on_ack_received(c, t, Data, frame))
      [] frame.type = "PATH_CHALLENGE" ->
            IF remote = c.remote
            THEN IF c.path_response = {} \/ Get(c.path_response).packet <= number
                 THEN Ok([c EXCEPT !.path_response =
                                      {[packet |-> number, token |-> frame.token]}])
                 ELSE Ok(c)
            ELSE Ok([c EXCEPT !.offpath_responses = Append(@, <<remote, frame.token>>)])
      [] frame.type = "PATH_RESPONSE" ->
            IF c.path_challenge # {frame.token} \/ remote # c.remote THEN Ok(c)
            ELSE Ok([timer_stop(push_endpoint_event(c, [type |-> "Migrated", arg |-> c.remote]),
                                "PathValidation")
                       EXCEPT !.path_challenge = {}, !.remote_validated = TRUE])
      [] frame.type = "MAX_DATA" ->
            LET c1 == [c EXCEPT !.max_data = Max(frame.offset, @)]
            IN  Ok(IF blocked(c) /\ ~blocked(c1) THEN wake_blocked(c1) ELSE c1)
      [] frame.type = "MAX_STREAM_DATA" ->
            IF has_send(c, frame.id)
            THEN IF frame.offset > c.streams[frame.id].max_data
                 THEN LET c1 == IF c.streams[frame.id].offset = c.streams[frame.id].max_data
                                THEN push_event(c, [type |-> "StreamWritable",
                                                    arg |-> frame.id])
                                ELSE c
                      IN  Ok([c1 EXCEPT !.streams[frame.id].max_data = frame.offset])
                 ELSE Ok(c)
            ELSE IF is_local_unopened(c, frame.id) THEN Err(c, "STREAM_STATE_ERROR")
            ELSE Ok(c)
      [] frame.type = "STOP_SENDING" ->
            IF is_local_unopened(c, frame.id) THEN Err(c, "STREAM_STATE_ERROR")
            ELSE LET c1 == reset(c, frame.id)
                 IN  IF has_send(c1, frame.id)
                        /\ c1.streams[frame.id].state \notin {"DataRecvd", "ResetRecvd"}
                     THEN LET c2 == [c1 EXCEPT
                                       !.streams[frame.id].state = "ResetSent",
                                       !.streams[frame.id].stop_reason = {0},
                                       !.blocked_streams = @ \ {frame.id}]
                          IN  Ok(IF frame.id \in c1.blocked_streams
                                    \/ c1.streams[frame.id].offset = c1.streams[frame.id].max_data
                                 THEN push_event(c2, [type |-> "StreamWritable",
                                                      arg |-> frame.id])
                                 ELSE c2)
                     ELSE Ok(c1)
      [] OTHER -> Ok(c)     \* PADDING, PING, DATA_BLOCKED, NEW_TOKEN, ...

\* the frame loop of process_payload; probing tells whether only probing
\* frames were seen, done is TRUE after an early return
RECURSIVE payload_frames(_, _, _, _, _, _, _)
\* process_payload: the loop goes on after a frame unless it raised an error
payload_next(r, t, remote, number, frames, is_0rtt, probing) ==
    IF r.err # "none"
    THEN [c |-> r.c, err |-> r.err, done |-> TRUE, probing |-> probing]
    ELSE payload_frames(r.c, t, remote, number, frames, is_0rtt, probing)

payload_frames(c, t, remote, number, frames, is_0rtt, probing) ==
    IF frames = <<>> THEN [c |-> c, err |-> "none", done |-> FALSE, probing |-> probing]
    ELSE IF is_0rtt /\ Head(frames).type \in {"CRYPTO", "CONNECTION_CLOSE", "APPLICATION_CLOSE"}
    THEN [c |-> c, err |-> "PROTOCOL_VIOLATION", done |-> TRUE, probing |-> probing]
    ELSE IF Head(frames).type \in {"CONNECTION_CLOSE", "APPLICATION_CLOSE"}
    THEN [c |-> peer_close([c EXCEPT !.spaces[Data].permit_ack_only = TRUE], Head(frames)),
          err |-> "none", done |-> TRUE, probing |-> probing]
    ELSE payload_next(
            payload_frame(IF Head(frames).type \in {"ACK", "PADDING"} THEN c
                          ELSE [c EXCEPT !.spaces[Data].permit_ack_only = TRUE],
                          t, remote, number, Head(frames)),
            t, remote, number, Tail(frames), is_0rtt,
            probing /\ Head(frames).type \in
                {"PADDING", "PATH_CHALLENGE", "PATH_RESPONSE", "NEW_CONNECTION_ID"})

\* process_payload after its frame loop: a non-probing packet from a new
\* address migrates the connection
payload_done(r, t, remote) ==
    IF r.done THEN [c |-> r.c, err |-> r.err]
    ELSE IF remote # r.c.remote /\ ~r.probing THEN Ok(migrate(r.c, t, remote))
    ELSE Ok(r.c)

\* Connection::process_payload
process_payload(c, t, remote, number, frames) ==
    payload_done(payload_frames(c, t, remote, number, frames, ~c.spaces[Data].crypto, TRUE),
                 t, remote)


MAX_ACK_BLOCKS == 64

\* RangeSet::len: the number of maximal runs of consecutive packet numbers
RangeCount(S) == Cardinality({n \in S : n - 1 \notin S})

\* RangeSet::pop_min: drop the lowest run
RECURSIVE PopMinRange(_)
PopMinRange(S) ==
    IF S = {} THEN S
    ELSE LET m == SetMin(S)
         IN  IF m + 1 \in S THEN PopMinRange(S \ {m}) ELSE S \ {m}

\* Connection::on_packet_authenticated; packet is {} for an unnumbered packet
on_packet_authenticated(c, t, space_id, ecn, packet) ==
    LET c1 == [c EXCEPT !.remote_validated = @ \/ (is_handshake(c) /\ space_id = Handshake)]
        c2 == [reset_idle_timeout(reset_keep_alive(c1, t), t) EXCEPT
                 !.permit_idle_reset = TRUE,
                 !.receiving_ecn = @ \/ ecn]
    IN  IF packet = {} THEN c2
        ELSE LET n == Get(packet)
                 c3 == IF c2.spaces[Initial].crypto /\ space_id = Handshake /\ is_server(c2)
                       THEN discard_space(c2, Initial) ELSE c2
                 acks == c3.spaces[space_id].pending_acks \cup {n}
                 c4 == [c3 EXCEPT !.spaces[space_id].pending_acks =
                            IF RangeCount(acks) > MAX_ACK_BLOCKS THEN PopMinRange(acks)
                            ELSE acks]
             IN  IF n >= c4.spaces[space_id].rx_packet
                 THEN [c4 EXCEPT !.spaces[space_id].rx_packet = n,
                                 !.spaces[space_id].rx_packet_time = t]
                 ELSE c4

\* Connection::update_keys; both callers pass the keys derived from the
\* current ones (Crypto::update), the next generation
update_keys(c, number, remote) ==
    [c EXCEPT !.prev_crypto = {[crypto |-> c.key_gen, end_packet |-> number,
                                update_ack_time |-> {}, update_unacked |-> remote]},
              !.key_gen = @ + 1,
              !.key_phase = ~@]

\* Connection::force_key_update
force_key_update(c) == update_keys(c, c.spaces[Data].next_packet_number, FALSE)

\* a faulty key selection: the packet number alone decides, the key phase bit
\* of the packet is not looked at
packet_key_by_number(c, packet) ==
    IF packet.hdr = "ZeroRtt" THEN "zero_rtt"
    ELSE IF packet.space # Data \/ c.prev_crypto = {} THEN "current"
    ELSE IF packet.number < Get(c.prev_crypto).end_packet THEN "previous"
    ELSE "current"

\* decrypt_packet: the keys a packet is decrypted with, "update" standing for
\* the next generation derived from the current keys
packet_key(c, packet) ==
    IF packet.hdr = "ZeroRtt" THEN "zero_rtt"
    ELSE IF packet.key_phase = c.key_phase \/ packet.space # Data THEN "current"
    ELSE IF IsSome(c.prev_crypto) /\ packet.number < Get(c.prev_crypto).end_packet
    THEN "previous"
    ELSE "update"

\* the generation of the 1-RTT keys chosen for a packet
key_generation(c, key) ==
    IF key = "previous" THEN Get(c.prev_crypto).crypto
    ELSE IF key = "update" THEN c.key_gen + 1
    ELSE c.key_gen

\* Crypto::decrypt: the tag verifies under the chosen keys; a 1-RTT packet was
\* sealed with the keys of one generation
decrypt(c, key, packet) ==
    /\ packet.sealed
    /\ (packet.hdr = "Short" => packet.key = key_generation(c, key))

\* a faulty decrypt_packet: a key update is taken whatever the packet's number
decrypt_packet_any_number(c, t, packet) ==
    IF packet.hdr \in {"Retry", "VersionNegotiate"} THEN [c |-> c, res |-> "none"]
    ELSE
      LET number == packet.number
          key == packet_key(c, packet)
      IN  IF ~decrypt(c, key, packet) THEN [c |-> c, res |-> "drop"]
          ELSE
            LET c0 == IF packet.hdr = "Short"
                      THEN [c EXCEPT !.gh_key = {key_generation(c, key)}] ELSE c
                c1 == IF IsSome(c0.prev_crypto)
                         /\ Get(c0.prev_crypto).update_ack_time = {}
                         /\ packet.key_phase = c0.key_phase
                      THEN set_key_discard_timer(
                             [c0 EXCEPT !.prev_crypto =
                                  {[Get(@) EXCEPT !.update_ack_time = {t}]}], t)
                      ELSE c0
            IN  IF packet.reserved THEN [c |-> c1, res |-> "error"]
                ELSE IF key = "update"
                THEN IF IsSome(c1.prev_crypto) /\ Get(c1.prev_crypto).update_unacked
                     THEN [c |-> c1, res |-> "error"]
                     ELSE LET c2 == update_keys(c1, number, TRUE)
                              c3 == [c2 EXCEPT !.prev_crypto =
                                        {[Get(@) EXCEPT !.update_ack_time = {t}]}]
                          IN  [c |-> set_key_discard_timer(c3, t), res |-> "number"]
                ELSE [c |-> c1, res |-> "number"]

\* Connection::decrypt_packet; res is "none" for Ok(None), "number" for
\* Ok(Some(number)), "drop" for Err(None), "error" for Err(Some(_))
decrypt_packet(c, t, packet) ==
    IF packet.hdr \in {"Retry", "VersionNegotiate"} THEN [c |-> c, res |-> "none"]
    ELSE
      LET rx_packet == c.spaces[packet.space].rx_packet
          number == packet.number
          key == packet_key(c, packet)
      IN  IF ~decrypt(c, key, packet) THEN [c |-> c, res |-> "drop"]
          ELSE
            LET c0 == IF packet.hdr = "Short"
                      THEN [c EXCEPT !.gh_key = {key_generation(c, key)}] ELSE c
                c1 == IF IsSome(c0.prev_crypto)
                         /\ Get(c0.prev_crypto).update_ack_time = {}
                         /\ packet.key_phase = c0.key_phase
                      THEN set_key_discard_timer(
                             [c0 EXCEPT !.prev_crypto =
                                  {[Get(@) EXCEPT !.update_ack_time = {t}]}], t)
                      ELSE c0
            IN  IF packet.reserved THEN [c |-> c1, res |-> "error"]
                ELSE IF key = "update"
                THEN IF number <= rx_packet
                        \/ (IsSome(c1.prev_crypto) /\ Get(c1.prev_crypto).update_unacked)
                     THEN [c |-> c1, res |-> "error"]
                     ELSE LET c2 == update_keys(c1, number, TRUE)
                              c3 == [c2 EXCEPT !.prev_crypto =
                                        {[Get(@) EXCEPT !.update_ack_time = {t}]}]
                          IN  [c |-> set_key_discard_timer(c3, t), res |-> "number"]
                ELSE [c |-> c1, res |-> "number"]


\* the first CONNECTION_CLOSE or APPLICATION_CLOSE frame of a payload, if any
RECURSIVE first_close(_)
first_close(frames) ==
    IF frames = <<>> THEN {}
    ELSE IF Head(frames).type \in {"CONNECTION_CLOSE", "APPLICATION_CLOSE"} THEN {Head(frames)}
    ELSE first_close(Tail(frames))

\* a client that accepts every Retry naming its current rem_cid
handle_retry_every_time(c, t, packet) ==
    IF packet.odcid # c.rem_cid THEN Ok(c)
    ELSE LET c1 == [c EXCEPT !.orig_rem_cid = {c.rem_cid},
                             !.rem_cid = packet.src_cid,
                             !.rem_handshake_cid = packet.src_cid]
             c2 == on_packet_acked(c1, Initial, 0)
             c3 == [c2 EXCEPT !.tls = TlsStart(c.side),
                              !.gh_panic = @ \/ is_server(c)]
             c4 == discard_space(c3, Initial)
             c5 == [c4 EXCEPT !.spaces[Initial] = [PacketSpaceNew(t) EXCEPT !.crypto = TRUE]]
         IN  Ok([write_tls(c5) EXCEPT !.state = "Handshake",
                                      !.token = TRUE,
                                      !.rem_cid_set = FALSE])

\* handle_connected_inner, Header::Retry while in the Handshake state
handle_retry(c, t, packet) ==
    IF IsSome(c.orig_rem_cid) \/ packet.odcid # c.rem_cid THEN Ok(c)
    ELSE LET c1 == [c EXCEPT !.orig_rem_cid = {c.rem_cid},
                             !.rem_cid = packet.src_cid,
                             !.rem_handshake_cid = packet.src_cid]
             c2 == on_packet_acked(c1, Initial, 0)
             c3 == [c2 EXCEPT !.tls = TlsStart(c.side),
                              !.gh_panic = @ \/ is_server(c)]   \* client_config.unwrap()
             c4 == discard_space(c3, Initial)
             c5 == [c4 EXCEPT !.spaces[Initial] = [PacketSpaceNew(t) EXCEPT !.crypto = TRUE]]
         IN  Ok([write_tls(c5) EXCEPT !.state = "Handshake",
                                      !.token = TRUE,
                                      !.rem_cid_set = FALSE])

\* a faulty completion of the handshake: the event is queued and the state is
\* left alone
connected_in_handshake(c) == push_event(c, [type |-> "Connected", arg |-> "none"])

\* handle_connected_inner: the handshake is complete
connected(c) ==
    [push_event(c, [type |-> "Connected", arg |-> "none"]) EXCEPT !.state = "Established"]

\* handle_connected_inner: a client validates and applies the server's
\* transport parameters; c0 is the connection before 0-RTT was settled
client_connected(c, c0) ==
    IF c0.zero_rtt_crypto /\ c0.early_data_accepted
          /\ (\/ c0.peer_params.initial_max_data < c0.params.initial_max_data
              \/ c0.peer_params.initial_max_stream_data < c0.params.initial_max_stream_data)
    THEN Err(c, "PROTOCOL_VIOLATION")
    ELSE IF ~set_params_ok(c, c0.peer_params)
    THEN Err(c, "TRANSPORT_PARAMETER_ERROR")
    ELSE Ok(connected(push_endpoint_event(set_params(c, c0.peer_params),
                                          [type |-> "NeedIdentifiers", arg |-> "none"])))

\* handle_connected_inner: a Handshake packet after process_early_payload
handshake_done(r, rem_cid_set) ==
    IF r.err # "none" THEN r
    ELSE IF is_closed(r.c) THEN r
    ELSE IF TlsIsHandshaking(r.c.tls)
    THEN Ok([r.c EXCEPT !.state = "Handshake", !.token = FALSE,
                        !.rem_cid_set = rem_cid_set])
    ELSE IF is_server(r.c) THEN Ok(connected(r.c))
    ELSE client_connected(
            IF r.c.zero_rtt_crypto
            THEN IF ~r.c.early_data_accepted THEN reject_0rtt(r.c)
                 ELSE [r.c EXCEPT !.accepted_0rtt = TRUE]
            ELSE r.c,
            r.c)

\* handle_connected_inner, a Handshake packet while in the Handshake state
handle_handshake(c, t, packet) ==
    IF packet.src_cid # c.rem_handshake_cid THEN Ok(c)
    ELSE handshake_done(process_early_payload(c, t, packet), c.rem_cid_set)

\* Connection::handle_connected_inner; number is {} for an unnumbered packet
handle_connected_inner(c, t, remote, number, packet) ==
    CASE c.state = "Handshake" ->
            CASE packet.hdr = "Retry" -> handle_retry(c, t, packet)
              [] packet.hdr = "Handshake" -> handle_handshake(c, t, packet)
              [] packet.hdr = "Initial" ->
                    IF c.rem_cid_set /\ packet.src_cid # c.rem_handshake_cid THEN Ok(c)
                    ELSE process_early_payload(
                            IF ~c.rem_cid_set
                            THEN [c EXCEPT !.rem_cid = packet.src_cid,
                                           !.rem_handshake_cid = packet.src_cid,
                                           !.rem_cid_set = TRUE]
                            ELSE c,
                            t, packet)
              [] packet.hdr = "ZeroRtt" ->
                    process_payload(c, t, remote, Get(number), packet.frames)
              [] packet.hdr = "VersionNegotiate" -> Err(c, "VersionMismatch")
              [] OTHER -> Ok(c)                 \* a short packet is dropped
      [] c.state = "Established" ->
            IF packet.space = Data
            THEN process_payload(c, t, remote, Get(number), packet.frames)
            ELSE process_early_payload(c, t, packet)
      [] c.state = "Closed" ->
            LET f == first_close(packet.frames)
            IN  IF f = {} THEN Ok(c) ELSE Ok(peer_close(c, Get(f)))
      [] OTHER -> Ok(c)                         \* Draining, Drained

\* handle_packet: Err(e) closes the connection, whatever its state
packet_error(c, err) ==
    IF err = "none" THEN c
    ELSE [push_event(c, ConnectionLost(IF err \in {"Reset", "VersionMismatch"}
                                       THEN err ELSE "TransportError"))
            EXCEPT !.state = CASE err = "Reset" -> "Drained"
                               [] err = "VersionMismatch" -> "Draining"
                               [] OTHER -> "Closed",
                   !.close_reason = IF err \in {"Reset", "VersionMismatch"}
                                    THEN @ ELSE "Connection"]

\* handle_packet: "if !was_closed && self.state.is_closed()"
packet_closed(c, t, was_closed) ==
    IF ~was_closed /\ is_closed(c)
    THEN IF ~is_drained(c) THEN set_close_timer(close_common(c), t)
         ELSE close_common(c)
    ELSE c

\* handle_packet: "if !was_drained && self.state.is_drained()"
packet_drained(c, was_drained) ==
    IF ~was_drained /\ is_drained(c)
    THEN timer_stop(push_endpoint_event(c, [type |-> "Drained", arg |-> "none"]), "Close")
    ELSE c

\* handle_packet: a closed connection answers packets of its peer
packet_close_reply(c, remote) ==
    IF c.state = "Closed" THEN [c EXCEPT !.close = remote = c.remote] ELSE c

\* handle_packet from the result of the packet on
packet_result(r, t, remote, was_closed, was_drained) ==
    packet_close_reply(
      packet_drained(packet_closed(packet_error(r.c, r.err), t, was_closed), was_drained),
      remote)

\* a faulty handle_packet: a packet is taken for a duplicate when insert
\* returns false
is_duplicate_on_false(ins) == ~ins.res

\* handle_packet: "let duplicate = ...", the packet is a duplicate when
\* dedup.insert returns true
is_duplicate(ins) == ins.res

\* handle_packet: a packet that decrypted to a number is processed unless it
\* is a duplicate
packet_numbered(c, t, remote, ecn, packet, was_closed, was_drained, stateless_reset) ==
    LET ins == DedupInsert(c.spaces[packet.space].dedup, packet.number)
        c0 == [c EXCEPT !.spaces[packet.space].dedup = ins.d]
        c1 == [c0 EXCEPT !.gh_processed = @ \cup {<<packet.space, packet.number>>},
                         !.gh_nprocessed = @ + 1]
    IN  IF is_duplicate(ins)
        THEN IF stateless_reset
             THEN packet_result(Err(c0, "Reset"), t, remote, was_closed, was_drained)
             ELSE c0
        ELSE packet_result(
               handle_connected_inner(
                  IF ~is_closed(c)
                  THEN on_packet_authenticated(c1, t, packet.space, ecn, {packet.number})
                  ELSE c1,
                  t, remote, {packet.number}, packet),
               t, remote, was_closed, was_drained)

\* handle_packet from the result of decrypt_packet on
packet_decrypted(d, t, remote, ecn, packet, was_closed, was_drained, stateless_reset) ==
    CASE d.res = "error" ->
            packet_result(Err(d.c, "PROTOCOL_VIOLATION"), t, remote, was_closed, was_drained)
      [] d.res = "drop" ->
            IF stateless_reset
            THEN packet_result(Err(d.c, "Reset"), t, remote, was_closed, was_drained)
            ELSE d.c
      [] d.res = "number" ->
            packet_numbered(d.c, t, remote, ecn, packet, was_closed, was_drained,
                            stateless_reset)
      [] OTHER ->
            packet_result(
              handle_connected_inner(
                 IF ~is_closed(d.c)
                 THEN on_packet_authenticated(d.c, t, packet.space, ecn, {})
                 ELSE d.c,
                 t, remote, {}, packet),
              t, remote, was_closed, was_drained)

\* a faulty handle_packet: the packet number is taken note of before the
\* packet is authenticated
handle_packet_noting_number(c, t, remote, ecn, packet) ==
    packet_decrypted(
       decrypt_packet([c EXCEPT !.spaces[packet.space].rx_packet = Max(@, packet.number)],
                      t, packet),
       t, remote, ecn, packet, is_closed(c), is_drained(c),
       c.params.stateless_reset_token /\ packet.reset)

\* a faulty handle_packet: the trailing bytes are never compared with the token
handle_packet_ignoring_reset(c, t, remote, ecn, packet) ==
    packet_decrypted(decrypt_packet(c, t, packet), t, remote, ecn, packet,
                     is_closed(c), is_drained(c), FALSE)

\* Connection::handle_packet
handle_packet(c, t, remote, ecn, packet) ==
    packet_decrypted(decrypt_packet(c, t, packet), t, remote, ecn, packet,
                     is_closed(c), is_drained(c),
                     c.params.stateless_reset_token /\ packet.reset)


\* Connection::handle_decode
handle_decode(c, t, remote, ecn, packet) ==
    IF packet.hdr = "ZeroRtt" /\ ~c.zero_rtt_crypto THEN c
    ELSE IF packet.hdr \in {"Initial", "Handshake", "Short"} /\ ~c.spaces[packet.space].crypto
    THEN c
    ELSE handle_packet(c, t, remote, ecn, packet)

\* the packets of a datagram, one after the other (handle_coalesced)
RECURSIVE handle_coalesced(_, _, _, _, _)
handle_coalesced(c, t, remote, ecn, packets) ==
    IF packets = <<>> THEN c
    ELSE handle_coalesced(handle_decode(c, t, remote, ecn, Head(packets)),
                          t, remote, ecn, Tail(packets))

\* the total length of a datagram's packets
RECURSIVE DatagramLen(_)
DatagramLen(packets) ==
    IF packets = <<>> THEN 0 ELSE Head(packets).len + DatagramLen(Tail(packets))

\* Connection::handle_event(ConnectionEvent::Datagram)
handle_datagram(c, t, remote, ecn, packets) ==
    IF remote # c.remote /\ is_client(c) THEN c
    ELSE handle_coalesced([c EXCEPT !.total_recvd = @ + DatagramLen(packets)],
                          t, remote, ecn, packets)

\* handle_initial: "if let Some(data) = remaining"
initial_remaining(c, t, remote, ecn, remaining) ==
    IF remaining # <<>>
    THEN handle_coalesced([c EXCEPT !.total_recvd = @ + DatagramLen(remaining)],
                          t, remote, ecn, remaining)
    ELSE c

\* handle_initial after process_early_payload
initial_done(r, t, remote, ecn, remaining) ==
    IF r.err # "none" THEN r
    ELSE IF is_closed(r.c) THEN r
    ELSE IF r.c.tls.stage = 0 THEN Err(r.c, "PROTOCOL_VIOLATION")
    ELSE Ok(initial_remaining(init_0rtt(write_tls(set_params(r.c, r.c.peer_params))),
                              t, remote, ecn, remaining))

\* Connection::handle_initial: the first Initial packet of a new server-side
\* connection, with the rest of its datagram
handle_initial(c, t, remote, ecn, packets) ==
    initial_done(
      process_early_payload(
         on_packet_authenticated([c EXCEPT !.total_recvd = Head(packets).len],
                                 t, Initial, ecn, {Head(packets).number}),
         t, Head(packets)),
      t, remote, ecn, Tail(packets))

\* a path validation failure that gives up the challenge and stays on the
\* new remote
path_validation_failed_keeping_remote(c) ==
    [c EXCEPT !.path_challenge = {}, !.path_challenge_pending = FALSE]

\* Connection::timeout, Timer::PathValidation: the challenge is given up and
\* the remote in use before the migration comes back
path_validation_failed(c) ==
    LET c1 == [c EXCEPT !.path_challenge = {}, !.path_challenge_pending = FALSE]
    IN  IF IsSome(c.prev_remote)
        THEN [c1 EXCEPT !.remote = Get(c.prev_remote),
                        !.prev_remote = {},
                        !.remote_validated = TRUE]
        ELSE c1

\* Connection::timeout
timeout(c, t, timer) ==
    CASE timer = "Close" ->
            [push_endpoint_event(c, [type |-> "Drained", arg |-> "none"])
               EXCEPT !.state = "Drained"]
      [] timer = "Idle" ->
            [push_endpoint_event(push_event(close_common(c), ConnectionLost("TimedOut")),
                                 [type |-> "Drained", arg |-> "none"])
               EXCEPT !.state = "Drained"]
      [] timer = "KeepAlive" -> ping(c)
      [] timer = "LossDetection" -> on_loss_detection_timeout(c, t)
      [] timer = "KeyDiscard" ->
            IF c.spaces[Handshake].crypto
            THEN set_key_discard_timer(discard_space(c, Handshake), t)
            ELSE IF IsSome(c.prev_crypto)
            THEN IF IsSome(Get(c.prev_crypto).update_ack_time)
                    /\ SatSub(t, Get(Get(c.prev_crypto).update_ack_time)) >= 3 * pto(c)
                 THEN [c EXCEPT !.prev_crypto = {}]
                 ELSE set_key_discard_timer(c, t)
            ELSE c
      [] timer = "PathValidation" -> path_validation_failed(c)

----------------------------------------------------------------------------
\* The environment: the host driver, the application and the peer.
\*   env.accepted    a server connection has been handed its first Initial
\*   env.rx          the next packet number the peer uses in each space
\*   env.close_called the application has called close()
\*   env.datagrams, env.appcalls, env.timeouts count the steps taken
\* tx.out is the Transmit returned by the step just taken ({} if it returned
\* none), tx.largest the largest packet number used so far in each space and
\* tx.prev the same before the step just taken.

EnvInit ==
    [ accepted |-> FALSE, rx |-> [s \in SpaceIds |-> 0], close_called |-> FALSE,
      datagrams |-> 0, appcalls |-> 0, timeouts |-> 0 ]

TxInit == [ out |-> {}, prev |-> [s \in SpaceIds |-> -1], largest |-> [s \in SpaceIds |-> -1] ]

NoTx == [tx EXCEPT !.out = {}]

\* the connection is in the hands of the host: it exists and has not panicked
Live == ~conn.gh_panic /\ (is_server(conn) => env.accepted)

\* the space a header type belongs to (Header::space)
SpaceOf(hdr) == IF hdr = "Initial" THEN Initial ELSE IF hdr = "Handshake" THEN Handshake
                ELSE Data

\* the connection ID the peer puts in its long headers: a client's is the one
\* the server connection was created with, a server picks its own
PeerCid == IF is_server(conn) THEN conn.rem_handshake_cid ELSE 1

\* an authentic packet of the peer with the next packet number of its space
Pkt(hdr, frames) ==
    [ hdr |-> hdr, space |-> SpaceOf(hdr), number |-> env.rx[SpaceOf(hdr)],
      key_phase |-> conn.key_phase, key |-> conn.key_gen, sealed |-> TRUE, reserved |-> FALSE, reset |-> FALSE,
      src_cid |-> PeerCid, odcid |-> 0, frames |-> frames,
      len |-> HEADER_LEN + Len(frames) + TAG_LEN ]

\* a datagram from the connection's current remote address
Dgram(packets) == [remote |-> conn.remote, ecn |-> FALSE, packets |-> packets]

\* the peer's packet numbers after a datagram; a forged packet uses none
RECURSIVE RxAfter(_, _)
RxAfter(rx, packets) ==
    IF packets = <<>> THEN rx
    ELSE LET pk == Head(packets)
         IN  RxAfter(IF pk.hdr \in {"Retry", "VersionNegotiate"} \/ ~pk.sealed
                        \/ pk.number < rx[pk.space]
                     THEN rx ELSE [rx EXCEPT ![pk.space] = pk.number + 1],
                     Tail(packets))

\* handle_event(Datagram) on datagram d, one of at most max in a behaviour
ReceiveDatagram(d, max) ==
    /\ Live
    /\ env.datagrams < max
    /\ conn' = handle_datagram(conn, now, d.remote, d.ecn, d.packets)
    /\ env' = IF conn' = conn /\ RxAfter(env.rx, d.packets) = env.rx THEN env
              ELSE [env EXCEPT !.datagrams = @ + 1, !.rx = RxAfter(@, d.packets)]
    /\ tx' = NoTx
    /\ UNCHANGED now

\* the endpoint creates a server connection for a first Initial: handle_initial;
\* a connection whose handle_initial fails is dropped by the endpoint
AcceptDatagram(d) ==
    /\ is_server(conn) /\ ~env.accepted
    /\ LET r == handle_initial(conn, now, d.remote, d.ecn, d.packets)
       IN  /\ r.err = "none"
           /\ conn' = r.c
    /\ env' = [env EXCEPT !.accepted = TRUE, !.rx = RxAfter(@, d.packets)]
    /\ tx' = NoTx
    /\ UNCHANGED now

\* the number of packets sent so far
Transmits == tx.largest[Initial] + tx.largest[Handshake] + tx.largest[Data] + 3

\* poll_transmit, called by the host driver at most max times with a result
Poll(max) ==
    /\ Live
    /\ Transmits < max
    /\ LET r == poll_transmit(conn, now)
       IN  /\ r.out # {} \/ r.c # conn
           /\ conn' = r.c
           /\ tx' = IF r.out = {} THEN NoTx
                    ELSE LET o == Get(r.out)
                         IN  [ out |-> r.out, prev |-> tx.largest,
                               largest |-> [tx.largest EXCEPT ![o.space] = Max(@, o.number)] ]
    /\ UNCHANGED <<now, env>>

\* a timer is due once its deadline has passed; MaxTime stands for any later time
Due(timer) ==
    /\ conn.timers[timer] # {}
    /\ (Get(conn.timers[timer]) <= now \/ now = MaxTime)

\* handle_event(Timeout(timer)): the host delivers an expired timer; at most max
\* timers other than Close and Idle expire in a behaviour
Timeout(timer, max) ==
    /\ Live
    /\ Due(timer)
    /\ timer \in {"Close", "Idle"} \/ env.timeouts < max
    /\ conn' = timeout(timer_stop(conn, timer), now, timer)
    /\ env' = IF timer \in {"Close", "Idle"} THEN env ELSE [env EXCEPT !.timeouts = @ + 1]
    /\ tx' = NoTx
    /\ UNCHANGED now

TimeoutClose == Timeout("Close", MaxTimeouts)

TimeoutIdle == Timeout("Idle", MaxTimeouts)

TimeoutKeepAlive == Timeout("KeepAlive", MaxTimeouts)

TimeoutLossDetection == Timeout("LossDetection", MaxTimeouts)

TimeoutKeyDiscard == Timeout("KeyDiscard", MaxTimeouts)

PollTransmit == Poll(MaxTransmits)

\* time passes
Advance ==
    /\ now < MaxTime
    /\ now' = now + 1
    /\ tx' = NoTx
    /\ UNCHANGED <<conn, env>>

\* the application calls close(), once
Close ==
    /\ Live
    /\ ~env.close_called
    /\ conn' = close(conn, now, 0)
    /\ env' = [env EXCEPT !.close_called = TRUE]
    /\ tx' = NoTx
    /\ UNCHANGED now

----------------------------------------------------------------------------
\* Specification Spec: the life of a connection of either side, from
\* construction through the handshake to its end.  The peer sends handshake
\* flights, PINGs, close frames, packets with reserved header bits set, invalid
\* frames, stateless resets and Version Negotiation.

\* what the TLS session will report about the peer
PeerParams(side) == TransportParameters(2, side = "Client", "none")

Init ==
    /\ conn \in { connection_new(side, TransportConfig(idle, 1), 0, FALSE,
                                 PeerParams(side), {}) :
                    side \in {"Client", "Server"}, idle \in {0, 3} }
    /\ now = 0
    /\ env = EnvInit
    /\ tx = TxInit

Headers == {"Initial", "Short"}

LifePackets ==
    {Pkt("Initial", <<CryptoFrame(0, 1)>>), Pkt("Handshake", <<CryptoFrame(0, 1)>>),
     Pkt("Short", <<Frame("PING")>>),
     Pkt("VersionNegotiate", <<>>),
     [Pkt("Short", <<>>) EXCEPT !.sealed = FALSE, !.reset = TRUE]}
    \cup {Pkt(h, <<Frame("CONNECTION_CLOSE")>>) : h \in Headers}
    \cup {[Pkt(h, <<Frame("PING")>>) EXCEPT !.reserved = TRUE] : h \in Headers}

\* the first datagram of a client: a padded Initial
FirstInitials ==
    {[Pkt("Initial", frames) EXCEPT !.len = MIN_MTU] :
        frames \in {<<CryptoFrame(0, 1)>>, <<Frame("CONNECTION_CLOSE")>>}}

Accept == \E pk \in FirstInitials : AcceptDatagram(Dgram(<<pk>>))

Receive == \E pk \in LifePackets : ReceiveDatagram(Dgram(<<pk>>), MaxDatagrams)

Next ==
    \/ Accept
    \/ Receive
    \/ PollTransmit
    \/ TimeoutClose
    \/ TimeoutIdle
    \/ TimeoutKeepAlive
    \/ TimeoutLossDetection
    \/ TimeoutKeyDiscard
    \/ Advance
    \/ Close

Spec == Init /\ [][Next]_vars

\* the host driver keeps time running and delivers expired Close and Idle timers
FairSpec ==
    Init /\ [][Next]_vars /\ WF_vars(Advance) /\ WF_vars(TimeoutClose) /\ WF_vars(TimeoutIdle)

----------------------------------------------------------------------------
\* Properties of the connection's life, checked under Spec and FairSpec.

\* the position of a state along Handshake, Established, Closed, Draining, Drained
Rank(state) ==
    CASE state = "Handshake" -> 0
      [] state = "Established" -> 1
      [] state = "Closed" -> 2
      [] state = "Draining" -> 3
      [] state = "Drained" -> 4

\* C1: the state only moves forward along Handshake, Established, Closed,
\* Draining, Drained: no step of the connection takes it to an earlier state,
\* so a Draining connection never becomes Closed, Established or Handshake
\* again and a Drained connection stays Drained.
C1_StateMovesForward == [][Rank(conn'.state) >= Rank(conn.state)]_vars

\* the last endpoint event queued is Drained
DrainedQueued ==
    /\ conn.endpoint_events # <<>>
    /\ conn.endpoint_events[Len(conn.endpoint_events)].type = "Drained"

\* C2: closing always terminates.  close() on an open connection starts the
\* Close timer at now + 3 * pto; after close() no step restarts or postpones
\* the timer (it is only ever stopped by reaching Drained); Timeout(Close)
\* leaves the connection Drained with a Drained endpoint event queued; and a
\* connection that close() was called on, or that entered Draining on its
\* peer's close frame, has its Close timer running and reaches Drained.
C2_ClosingTerminates ==
    /\ [][Close /\ ~is_closed(conn)
            => conn'.timers["Close"] = {now + 3 * pto(conn)}]_vars
    /\ [][env.close_called /\ conn.timers["Close"] # {}
            => \/ conn'.timers["Close"] = conn.timers["Close"]
               \/ conn'.timers["Close"] = {} /\ conn'.state = "Drained"]_vars
    /\ [][TimeoutClose => conn'.state = "Drained" /\ DrainedQueued']_vars
    /\ [](conn.state = "Draining" => conn.timers["Close"] # {})
    /\ (env.close_called ~> conn.state = "Drained")
    /\ (conn.state = "Draining" ~> conn.state = "Drained")

\* the frame types that close a connection
CloseFrames == {"CONNECTION_CLOSE", "APPLICATION_CLOSE"}

\* C3: after close() has been called every datagram poll_transmit returns
\* carries nothing but a CONNECTION_CLOSE or APPLICATION_CLOSE frame, and in
\* Draining and Drained poll_transmit returns nothing.
C3_OnlyCloseAfterClose ==
    /\ env.close_called => \A T \in tx.out : T.frames # {} /\ T.frames \subseteq CloseFrames
    /\ conn.state \in {"Draining", "Drained"} => poll_transmit(conn, now).out = {}
    /\ conn.state \in {"Draining", "Drained"} => tx.out = {}

\* C3 witness: poll_transmit has just returned the APPLICATION_CLOSE datagram of
\* a connection that had handshake data pending when close() was called
C3_Witness ==
    /\ env.close_called
    /\ \E T \in tx.out : T.frames = {"APPLICATION_CLOSE"}
    /\ \E s \in SpaceIds : conn.spaces[s].pending.crypto # <<>>

\* C4: a connection queues at most one ConnectionLost application event and at
\* most one Drained endpoint event, and a connection that has terminated
\* (Drained) has queued exactly one of each.
C4_ExactlyOneLostAndDrained ==
    /\ CountType(conn.events, "ConnectionLost") <= 1
    /\ CountType(conn.endpoint_events, "Drained") <= 1
    /\ conn.state = "Drained"
          => /\ CountType(conn.events, "ConnectionLost") = 1
             /\ CountType(conn.endpoint_events, "Drained") = 1


----------------------------------------------------------------------------
\* Specification RecSpec: acknowledgement and loss recovery.  A client goes through the handshake (a client possibly with a 0-RTT
\* ticket, possibly through a Retry), sends stream data, and the peer
\* acknowledges any subset of the packet numbers handed out so far, with or
\* without ECN counts, while timers expire.

RecMaxDatagrams == 2

RecMaxTransmits == 4

RecMaxAppCalls == 2

RecMaxTimeouts == 1

\* the parameters the client remembers with its session ticket
Ticket == TransportParameters(2, FALSE, "none")

\* the server the client meets: one that accepts its early data, one that
\* rejects it, and one that rejects it and answers a Retry with the original
\* connection ID among its parameters
RecPeers ==
    { [TransportParameters(2, TRUE, "none") EXCEPT !.early_data = TRUE],
      TransportParameters(2, TRUE, "none"),
      TransportParameters(2, TRUE, "match") }

RecInit ==
    /\ conn \in { connection_new("Client", TransportConfig(0, 0), 0, FALSE, peer, {Ticket}) :
                    peer \in RecPeers }
    /\ now = 0
    /\ env = EnvInit
    /\ tx = TxInit

\* the long or short header of a packet number space
HeaderOf(space) ==
    IF space = Initial THEN "Initial" ELSE IF space = Handshake THEN "Handshake" ELSE "Short"

\* a server's Retry for the client's first Initial
RetryPacket == [Pkt("Retry", <<>>) EXCEPT !.src_cid = 2, !.odcid = conn.rem_cid]

\* the ACK frames the peer may send in a space: any non-empty set of packet
\* numbers handed out so far, the largest among them; an ACK of the latest
\* packet alone may carry ECN counts, without or with a congestion mark
AckFrames(space) ==
    LET n == conn.spaces[space].next_packet_number - 1
    IN  { AckFrame(SetMax(R), R) : R \in SUBSET (0 .. n) \ {{}} }
        \cup { [AckFrame(n, {n}) EXCEPT !.ecn = {[ect0 |-> n + 1 - ce, ect1 |-> 0, ce |-> ce]}] :
                 ce \in IF n >= 0 THEN {0, 1} ELSE {} }

RecDatagrams ==
    {<<RetryPacket>>,
     <<Pkt("Initial", <<CryptoFrame(0, 1)>>), Pkt("Handshake", <<CryptoFrame(0, 1)>>)>>}
    \cup UNION {{<<Pkt(HeaderOf(s), <<ack>>)>> : ack \in AckFrames(s)} : s \in SpaceIds}

RecReceive == \E d \in RecDatagrams : ReceiveDatagram(Dgram(d), RecMaxDatagrams)

RecPoll == Poll(RecMaxTransmits)

\* the application opens a stream, one of at most max calls in a behaviour
Open(max) ==
    /\ Live
    /\ env.appcalls < max
    /\ open(conn) # conn
    /\ conn' = open(conn)
    /\ env' = [env EXCEPT !.appcalls = @ + 1]
    /\ tx' = NoTx
    /\ UNCHANGED now

\* the application writes to a stream it has neither finished nor reset; it
\* learns that the peer stopped the stream from the write that fails
Write(max) ==
    /\ Live
    /\ env.appcalls < max
    /\ \E stream \in DOMAIN conn.streams, len \in 1..MaxWrite :
          /\ conn.streams[stream].state = "Ready" \/ IsSome(conn.streams[stream].stop_reason)
          /\ write(conn, stream, len).c # conn
          /\ conn' = write(conn, stream, len).c
    /\ env' = [env EXCEPT !.appcalls = @ + 1]
    /\ tx' = NoTx
    /\ UNCHANGED now

RecOpen == Open(RecMaxAppCalls)

RecWrite == Write(RecMaxAppCalls)

RecLossDetection == Timeout("LossDetection", RecMaxTimeouts)

RecKeyDiscard == Timeout("KeyDiscard", RecMaxTimeouts)

RecNext ==
    \/ RecReceive
    \/ RecPoll
    \/ RecOpen
    \/ RecWrite
    \/ RecLossDetection
    \/ RecKeyDiscard
    \/ Advance

RecSpec == RecInit /\ [][RecNext]_vars


----------------------------------------------------------------------------
\* Properties of RecSpec

\* the sum of the values of a function on packet numbers
RECURSIVE SumFn(_)
SumFn(f) ==
    IF DOMAIN f = {} THEN 0
    ELSE LET n == SetMin(DOMAIN f)
         IN  f[n] + SumFn([k \in DOMAIN f \ {n} |-> f[k]])

\* the sum of f over the packets of a sent_packets map
SumSent(sent, f(_)) == SumFn([n \in DOMAIN sent |-> f(sent[n])])

SentSize(p) == p.size

SentCrypto(p) == B2N(p.is_crypto_packet)

SentAckEliciting(p) == B2N(p.ack_eliciting)

\* the sum of f over the sent packets of the three spaces
SumSpaces(f(_)) ==
    SumSent(conn.spaces[Initial].sent_packets, f)
      + SumSent(conn.spaces[Handshake].sent_packets, f)
      + SumSent(conn.spaces[Data].sent_packets, f)

\* C5: the in-flight counters (bytes, crypto packets, ack-eliciting packets)
\* equal the sums over the sent packets of the three spaces in every state,
\* whatever sends, acknowledgements, losses, handshake retransmissions, space
\* discards, Retry and 0-RTT rejection led to it; so they are never negative.
C5_InFlightIsSum ==
    /\ conn.in_flight.bytes = SumSpaces(SentSize)
    /\ conn.in_flight.crypto = SumSpaces(SentCrypto)
    /\ conn.in_flight.ack_eliciting = SumSpaces(SentAckEliciting)
    /\ conn.in_flight.bytes >= 0
    /\ conn.in_flight.crypto >= 0
    /\ conn.in_flight.ack_eliciting >= 0

\* packets were acknowledged, declared lost and dropped with their space, and
\* others are still in flight
C5_Witness ==
    /\ conn.gh_acked # <<>>
    /\ conn.gh_lost # <<>>
    /\ ~conn.spaces[Initial].crypto
    /\ conn.in_flight.bytes > 0
    /\ conn.gh_sent > Len(conn.gh_acked) + Len(conn.gh_lost)
                       + Cardinality(UNION {DOMAIN conn.spaces[s].sent_packets : s \in SpaceIds})

\* C6: the packet number of every packet poll_transmit emits is larger than
\* every number used before in its space, over the whole life of the
\* connection, a client's Retry included.
C6_NumbersIncrease == \A T \in tx.out : T.number > tx.prev[T.space]

\* C9: processing an ACK frame a second time, in the same space at the same
\* time, changes nothing: the connection after two applications equals the
\* connection after one, for every ACK frame the peer can send.
C9_AckIdempotent ==
    \A s \in SpaceIds : \A ack \in AckFrames(s) :
        on_ack_received(on_ack_received(conn, now, s, ack), now, s, ack)
            = on_ack_received(conn, now, s, ack)

\* an ACK that acknowledges a packet and has another declared lost
C9_Witness ==
    \E s \in SpaceIds : \E ack \in AckFrames(s) :
        LET once == on_ack_received(conn, now, s, ack)
        IN  /\ conn.spaces[s].crypto
            /\ Len(once.gh_acked) > Len(conn.gh_acked)
            /\ Len(once.gh_lost) > Len(conn.gh_lost)
            /\ once.congestion_window # conn.congestion_window

\* the sent packets handled so far: acknowledged, then declared lost
Handled == conn.gh_acked \o conn.gh_lost

\* C10: a sent packet is handled at most once, as acknowledged or as lost: no
\* packet is in both histories and none is twice in either.
C10_AckedOrLostOnce ==
    \A i, j \in 1..Len(Handled) : Handled[i] = Handled[j] => i = j

\* one packet was acknowledged and another declared lost by the same ACK
C10_Witness ==
    /\ conn.gh_acked # <<>>
    /\ conn.gh_lost # <<>>
    /\ conn.lost_packets > 0
    /\ \E s \in SpaceIds : conn.spaces[s].largest_acked_packet > 0


----------------------------------------------------------------------------
\* Specification FlowSpec: flow control of outgoing stream data.  A client with
\* a 0-RTT ticket opens streams, writes to them and resets them before and
\* after the handshake; the server accepts or rejects the early data and
\* installs its own limits, raises them with MAX_DATA, stops streams and
\* acknowledges packets, and packets are lost.

FlowMaxDatagrams == 2

FlowMaxTransmits == 3

FlowMaxAppCalls == 3

FlowMaxTimeouts == 1

\* the limits remembered with the session ticket
FlowTicket == [TransportParameters(2, FALSE, "none") EXCEPT !.initial_max_stream_data = 3]

\* the server the client meets: its final limits and its answer to early data
FlowPeers ==
    { [TransportParameters(2, TRUE, "none") EXCEPT !.initial_max_stream_data = 3,
                                                   !.early_data = TRUE],
      [TransportParameters(2, TRUE, "none") EXCEPT !.initial_max_stream_data = 3],
      TransportParameters(1, TRUE, "none") }

FlowInit ==
    /\ conn \in { connection_new("Client", TransportConfig(0, 0), 0, FALSE, peer, {FlowTicket}) :
                    peer \in FlowPeers }
    /\ now = 0
    /\ env = EnvInit
    /\ tx = TxInit

FlowDatagrams ==
    {<<Pkt("Initial", <<CryptoFrame(0, 1)>>), Pkt("Handshake", <<CryptoFrame(0, 1)>>)>>,
     <<Pkt("Short", <<MaxDataFrame(3)>>)>>,
     <<Pkt("Short", <<StopSendingFrame(0)>>)>>}
    \cup {<<Pkt("Short", <<ack>>)>> : ack \in {f \in AckFrames(Data) : f.ecn = {}}}

FlowReceive == \E d \in FlowDatagrams : ReceiveDatagram(Dgram(d), FlowMaxDatagrams)

FlowPoll == Poll(FlowMaxTransmits)

\* the application resets a stream
Reset(max) ==
    /\ Live
    /\ env.appcalls < max
    /\ \E stream \in DOMAIN conn.streams :
          /\ reset(conn, stream) # conn
          /\ conn' = reset(conn, stream)
    /\ env' = [env EXCEPT !.appcalls = @ + 1]
    /\ tx' = NoTx
    /\ UNCHANGED now

FlowOpen == Open(FlowMaxAppCalls)

FlowWrite == Write(FlowMaxAppCalls)

FlowReset == Reset(FlowMaxAppCalls)

FlowLossDetection == Timeout("LossDetection", FlowMaxTimeouts)

FlowNext ==
    \/ FlowReceive
    \/ FlowPoll
    \/ FlowOpen
    \/ FlowWrite
    \/ FlowReset
    \/ FlowLossDetection
    \/ Advance

FlowSpec == FlowInit /\ [][FlowNext]_vars


----------------------------------------------------------------------------
\* Properties of FlowSpec

\* the three budgets Connection::write takes the minimum of
ConnBudget == conn.max_data - conn.data_sent

WindowBudget == conn.config.send_window - conn.unacked_data

StreamBudget(stream) == conn.streams[stream].max_data - conn.streams[stream].offset

\* C7: data_sent never exceeds max_data and unacked_data never exceeds
\* send_window, in every state and so whenever poll_transmit emits a packet,
\* whatever writes, MAX_DATA frames, acknowledgements, losses, resets, parameter
\* installation and 0-RTT rejection came before; a write that queues data finds
\* none of its three budgets negative and queues no more than their minimum.
C7_FlowControl ==
    /\ conn.data_sent <= conn.max_data
    /\ conn.unacked_data <= conn.config.send_window
    /\ conn.unacked_data >= 0
    /\ \A stream \in DOMAIN conn.streams : \A len \in 1..MaxWrite :
          LET w == write(conn, stream, len)
          IN  w.res = "Ok" =>
                /\ ConnBudget >= 0 /\ WindowBudget >= 0 /\ StreamBudget(stream) >= 0
                /\ w.n <= Min(Min(ConnBudget, WindowBudget), StreamBudget(stream))
                /\ w.c.data_sent = conn.data_sent + w.n
                /\ w.c.unacked_data = conn.unacked_data + w.n

\* poll_transmit emits stream data when a write has used up the connection's
\* budget although the stream's budget and the window had room for more
C7_Witness ==
    /\ \E T \in tx.out : "STREAM" \in T.frames
    /\ conn.data_sent = conn.max_data
    /\ conn.data_sent > 0
    /\ conn.unacked_data < conn.config.send_window
    /\ \E stream \in DOMAIN conn.streams : StreamBudget(stream) > 0


----------------------------------------------------------------------------
\* Specification AmpSpec: a server and the address of its peer.  The server is
\* created for a padded first Initial from an address that is not validated;
\* the client completes the handshake and sends packets from a new port,
\* which migrates the connection
\* until the path is validated or the validation times out, while the
\* application writes and pings.

AmpMaxDatagrams == 2

AmpMaxTransmits == 8

AmpMaxAppCalls == 3

AmpMaxTimeouts == 1

AmpInit ==
    /\ conn = connection_new("Server", TransportConfig(0, 0), 0, FALSE, PeerParams("Server"), {})
    /\ now = 0
    /\ env = EnvInit
    /\ tx = TxInit

\* the addresses the peer's datagrams come from: its first one and a new port
Remotes == {0, 1}

AmpPackets ==
    {Pkt("Handshake", <<CryptoFrame(0, 1)>>),
     Pkt("Short", <<Frame("PING")>>),
     Pkt("Short", <<PathFrame("PATH_RESPONSE", 1)>>)}

AmpAccept ==
    AcceptDatagram(Dgram(<<[Pkt("Initial", <<CryptoFrame(0, 1)>>) EXCEPT !.len = MIN_MTU]>>))

AmpReceive ==
    \E pk \in AmpPackets, remote \in Remotes :
        ReceiveDatagram([remote |-> remote, ecn |-> FALSE, packets |-> <<pk>>], AmpMaxDatagrams)

AmpPoll == Poll(AmpMaxTransmits)

\* the application asks for a PING
Ping(max) ==
    /\ Live
    /\ env.appcalls < max
    /\ ping(conn) # conn
    /\ conn' = ping(conn)
    /\ env' = [env EXCEPT !.appcalls = @ + 1]
    /\ tx' = NoTx
    /\ UNCHANGED now

AmpPing == Ping(AmpMaxAppCalls)

AmpLossDetection == Timeout("LossDetection", AmpMaxTimeouts)

AmpPathValidation == Timeout("PathValidation", AmpMaxTimeouts)

AmpNext ==
    \/ AmpAccept
    \/ AmpReceive
    \/ AmpPoll
    \/ AmpPing
    \/ AmpLossDetection
    \/ AmpPathValidation
    \/ Advance

AmpSpec == AmpInit /\ [][AmpNext]_vars

\* C8: while a server has not validated its peer's address, during the
\* handshake and after a migration alike, the bytes poll_transmit has handed
\* out never exceed three times the bytes received.
C8_AntiAmplification ==
    is_server(conn) /\ ~conn.remote_validated => conn.total_sent <= 3 * conn.total_recvd


----------------------------------------------------------------------------
\* More properties of RecSpec

\* a Retry packet with a source CID and an original destination CID; its
\* payload, the token, is bytes of the peer's choice
RetryFrom(src_cid, odcid, token) ==
    [Pkt("Retry", token) EXCEPT !.src_cid = src_cid, !.odcid = odcid]

\* the CIDs a Retry may name: the one the client uses and two others
Cids == {conn.rem_cid, 2, 3}

RetryPackets ==
    {RetryFrom(s, o, token) : s \in {2, 3}, o \in Cids,
                              token \in {<<>>, <<CryptoFrame(0, 1)>>}}

\* the connection after a datagram made of one Retry packet
AfterRetry(pk) == handle_datagram(conn, now, conn.remote, FALSE, <<pk>>)

\* the Retry was accepted: the client talks to the new CID, holds the token,
\* has a fresh TLS session whose first flight is queued again, and an Initial
\* space made anew with keys
RetryAccepted(pk, after) ==
    /\ after.rem_cid = pk.src_cid
    /\ after.orig_rem_cid = {conn.rem_cid}
    /\ after.token
    /\ after.tls = write_tls([conn EXCEPT !.tls = TlsStart(conn.side),
                                          !.spaces[Initial] = PacketSpaceNew(now)]).tls
    /\ after.spaces[Initial] =
          write_tls([conn EXCEPT !.tls = TlsStart(conn.side),
                                 !.spaces[Initial] =
                                     [PacketSpaceNew(now) EXCEPT !.crypto = TRUE]]).spaces[Initial]

\* the Retry was ignored
RetryIgnored(after) ==
    /\ after.rem_cid = conn.rem_cid
    /\ after.orig_rem_cid = conn.orig_rem_cid
    /\ after.token = conn.token
    /\ after.tls = conn.tls
    /\ after.spaces[Initial] = conn.spaces[Initial]

C25_ServerIgnoresRetry ==
    is_server(conn) /\ is_handshake(conn) /\ Live =>
       \A pk \in {RetryFrom(s, o, <<>>) : s \in {2, 3}, o \in Cids} :
          /\ ~AfterRetry(pk).gh_panic
          /\ AfterRetry(pk).rem_cid = conn.rem_cid
          /\ AfterRetry(pk).rem_handshake_cid = conn.rem_handshake_cid
          /\ AfterRetry(pk).orig_rem_cid = conn.orig_rem_cid
          /\ AfterRetry(pk).tls = conn.tls
          /\ AfterRetry(pk).spaces[Initial] = conn.spaces[Initial]

\* the ids of the packets declared lost by the step
NewlyLost == {conn'.gh_lost[i] : i \in (Len(conn.gh_lost) + 1) .. Len(conn'.gh_lost)}

\* the packets of a space the step declared lost
LostIn(space) ==
    {n \in DOMAIN conn.spaces[space].sent_packets :
        conn.spaces[space].sent_packets[n].uid \in NewlyLost}

\* the pending queue after the retransmits of the packets in lost, lowest
\* number first, have each been added once
RECURSIVE AddLost(_, _, _)
AddLost(pending, sent, lost) ==
    IF lost = {} THEN pending
    ELSE AddLost(RetransmitsAdd(pending, sent[SetMin(lost)].retransmits), sent,
                 lost \ {SetMin(lost)})

\* C11: a step that declares packets lost (loss detection after an ACK or on
\* the timer, or the handshake retransmission timeout) removes each of them
\* from sent_packets and adds its retransmits exactly once to the pending queue
\* of the packet's own space; the pending queue of a space that lost nothing
\* is left as it was, and every packet declared lost was in some space.
C11_LostRequeuedOnce ==
    [][Len(conn'.gh_lost) > Len(conn.gh_lost) =>
         /\ \A s \in SpaceIds :
               /\ conn'.spaces[s].pending =
                     AddLost(conn.spaces[s].pending, conn.spaces[s].sent_packets, LostIn(s))
               /\ LostIn(s) \cap DOMAIN conn'.spaces[s].sent_packets = {}
         /\ Cardinality(LostIn(Initial)) + Cardinality(LostIn(Handshake))
               + Cardinality(LostIn(Data)) = Len(conn'.gh_lost) - Len(conn.gh_lost)]_vars

\* a lost packet's CRYPTO data is back in the pending queue of its space, and
\* a lost packet's stream data is back in the Data space's
C11_Witness ==
    /\ conn.gh_lost # <<>>
    /\ conn.spaces[Data].pending.stream # <<>>
    /\ conn.spaces[Data].next_packet_number > 0
    /\ conn.spaces[Data].sent_packets = NoPackets
    /\ conn.gh_acked # <<>>


----------------------------------------------------------------------------
\* Send streams: a client that opens, writes, finishes and resets streams in
\* 0-RTT and 1-RTT, and a server that acknowledges, stops streams and accepts
\* or rejects the early data

StrMaxDatagrams == 3

StrMaxTransmits == 3

StrMaxAppCalls == 3

StrMaxTimeouts == 1

StrPeers ==
    { [TransportParameters(2, TRUE, "none") EXCEPT !.early_data = TRUE],
      TransportParameters(2, TRUE, "none") }

StrInit ==
    /\ conn \in { connection_new("Client", TransportConfig(0, 0), 0, FALSE, peer, {Ticket}) :
                    peer \in StrPeers }
    /\ now = 0
    /\ env = EnvInit
    /\ tx = TxInit

StrDatagrams ==
    {<<Pkt("Initial", <<CryptoFrame(0, 1)>>), Pkt("Handshake", <<CryptoFrame(0, 1)>>)>>,
     <<Pkt("Short", <<StopSendingFrame(0)>>)>>}
    \cup {<<Pkt("Short", <<ack>>)>> : ack \in {f \in AckFrames(Data) : f.ecn = {}}}

StrReceive == \E d \in StrDatagrams : ReceiveDatagram(Dgram(d), StrMaxDatagrams)

StrPoll == Poll(StrMaxTransmits)

\* the application finishes a stream it has neither finished nor reset
Finish(max) ==
    /\ Live
    /\ env.appcalls < max
    /\ \E stream \in DOMAIN conn.streams :
          /\ conn.streams[stream].state = "Ready"
          /\ conn' = finish(conn, stream)
    /\ env' = [env EXCEPT !.appcalls = @ + 1]
    /\ tx' = NoTx
    /\ UNCHANGED now

StrOpen == Open(StrMaxAppCalls)

StrWrite == Write(StrMaxAppCalls)

StrFinish == Finish(StrMaxAppCalls)

StrReset == Reset(StrMaxAppCalls)

StrLossDetection == Timeout("LossDetection", StrMaxTimeouts)

StrNext ==
    \/ StrReceive
    \/ StrPoll
    \/ StrOpen
    \/ StrWrite
    \/ StrFinish
    \/ StrReset
    \/ StrLossDetection
    \/ Advance

StrSpec == StrInit /\ [][StrNext]_vars


----------------------------------------------------------------------------
\* Properties of StrSpec

\* the ids of the packets the step acknowledged
NewlyAcked == {conn'.gh_acked[i] : i \in (Len(conn.gh_acked) + 1) .. Len(conn'.gh_acked)}

\* the step acknowledged a packet that carried RESET_STREAM for the stream
ResetAcked(id) ==
    \E n \in DOMAIN conn.spaces[Data].sent_packets :
       /\ conn.spaces[Data].sent_packets[n].uid \in NewlyAcked
       /\ \E i \in 1..Len(conn.spaces[Data].sent_packets[n].retransmits.rst_stream) :
             conn.spaces[Data].sent_packets[n].retransmits.rst_stream[i] = id

\* the step completed the handshake of a client whose early data the server
\* rejected, and reject_0rtt put every stream back to its initial state
RejectStep ==
    /\ conn.state = "Handshake" /\ conn'.state # "Handshake"
    /\ conn.zero_rtt_crypto /\ ~conn.early_data_accepted
    /\ conn'.streams = zero_rtt_rejected(conn.streams)

\* the moves of SendState
SendMoves ==
    {<<"Ready", "DataSent">>, <<"DataSent", "DataRecvd">>, <<"Ready", "ResetSent">>,
     <<"DataSent", "ResetSent">>, <<"ResetSent", "ResetRecvd">>}

\* the state of a stream after the step; a stream is forgotten by
\* maybe_cleanup right after it became DataRecvd or ResetRecvd
SendStateAfter(id) ==
    IF id \in DOMAIN conn'.streams THEN conn'.streams[id].state
    ELSE IF conn.streams[id].state = "DataSent" THEN "DataRecvd"
    ELSE IF conn.streams[id].state \in {"ResetSent", "ResetRecvd"} THEN "ResetRecvd"
    ELSE "Forgotten"

\* C12: the send state of a stream moves only Ready -> DataSent -> DataRecvd,
\* {Ready, DataSent} -> ResetSent and ResetSent -> ResetRecvd; DataRecvd and
\* ResetRecvd never change; ResetSent is left only for ResetRecvd and only in
\* a step that acknowledges a packet carrying the stream's RESET_STREAM; a
\* stream returns to Ready only when reject_0rtt resets all of them.
C12_SendStateMoves ==
    [][\A id \in DOMAIN conn.streams :
          LET old == conn.streams[id].state
              new == SendStateAfter(id)
          IN  \/ new = old
              \/ new = "Ready" /\ RejectStep
              \/ /\ <<old, new>> \in SendMoves
                 /\ old = "ResetSent" => ResetAcked(id)]_vars

\* a stream the peer stopped has had its RESET_STREAM acknowledged
C12_Witness ==
    /\ \E id \in DOMAIN conn.streams : conn.streams[id].state = "ResetRecvd"
    /\ \E i \in 1..Len(conn.events) : conn.events[i].type = "StreamFinished"



\* a STREAM frame of the stream is still unacknowledged: queued for
\* (re)transmission or carried by a packet in flight
StreamOutstanding(id) ==
    \/ \E i \in 1..Len(conn.spaces[Data].pending.stream) :
          conn.spaces[Data].pending.stream[i].id = id
    \/ \E n \in DOMAIN conn.spaces[Data].sent_packets :
          \E i \in 1..Len(conn.spaces[Data].sent_packets[n].retransmits.stream) :
             conn.spaces[Data].sent_packets[n].retransmits.stream[i].id = id

\* the positions of the StreamFinished events of a stream in the event queue
Finished(id) ==
    {i \in 1..Len(conn.events) :
        conn.events[i] = [type |-> "StreamFinished", arg |-> id]}

\* C13: StreamFinished is in the event queue of a stream only when every
\* STREAM frame of the stream, the one carrying FIN included, has been
\* acknowledged, and at most once per stream.
C13_FinishedAfterAllAcked ==
    \A id \in 0..(MaxStreams - 1) :
       /\ Finished(id) # {} => ~StreamOutstanding(id)
       /\ Cardinality(Finished(id)) <= 1


----------------------------------------------------------------------------
\* More properties of FlowSpec

\* C14: a stream whose write was refused because the connection was blocked
\* (connection-level flow control, the send window or congestion) stays
\* recorded in blocked_streams only while the connection is blocked: once the
\* connection is no longer blocked every recorded stream has been handed its
\* StreamWritable event and none is left recorded and unwoken.
C14_NoStreamLeftBlocked ==
    (~is_closed(conn) /\ ~blocked(conn)) => conn.blocked_streams = {}

\* the bytes of the STREAM frames of a sequence
StreamBytes(frames) == SeqSum([i \in 1..Len(frames) |-> frames[i].len])

SentStreamBytes(p) == StreamBytes(p.retransmits.stream)

\* C21: unacked_data equals the stream data bytes queued in the Data space's
\* pending.stream plus those carried by the packets in its sent_packets, also
\* after acks of frames whose stream was cleaned up, after losses, after
\* resets and after reject_0rtt.
C21_UnackedIsOutstanding ==
    conn.unacked_data =
        StreamBytes(conn.spaces[Data].pending.stream)
          + SumSent(conn.spaces[Data].sent_packets, SentStreamBytes)


----------------------------------------------------------------------------
\* Key update: a client whose peer, or whose application, moves the 1-RTT keys
\* to the next generation while packets of both generations arrive in any order

KeyMaxDatagrams == 3

KeyMaxTransmits == 3

KeyMaxAppCalls == 1

KeyMaxTimeouts == 1

\* the highest packet number the peer uses and the highest generation of keys
\* it seals with
KeyMaxNumber == 2

KeyMaxGeneration == 2

KeyInit ==
    /\ conn = connection_new("Client", TransportConfig(0, 0), 0, FALSE,
                             TransportParameters(2, FALSE, "none"), {})
    /\ now = 0
    /\ env = EnvInit
    /\ tx = TxInit

\* a 1-RTT packet with a given number sealed with the keys of a generation; the
\* key phase bit is the generation's parity
KeyPacket(number, generation) ==
    [Pkt("Short", <<Frame("PING")>>) EXCEPT !.number = number, !.key = generation,
                                            !.key_phase = (generation % 2 = 1)]

KeyDatagrams ==
    {<<Pkt("Initial", <<CryptoFrame(0, 1)>>), Pkt("Handshake", <<CryptoFrame(0, 1)>>)>>}
    \cup {<<KeyPacket(n, g)>> : n \in 0..KeyMaxNumber, g \in 0..KeyMaxGeneration}

KeyReceive == \E d \in KeyDatagrams : ReceiveDatagram(Dgram(d), KeyMaxDatagrams)

KeyPoll == Poll(KeyMaxTransmits)

\* the application starts a key update once 1-RTT keys are in place
ForceKeyUpdate(max) ==
    /\ Live
    /\ env.appcalls < max
    /\ conn.spaces[Data].crypto
    /\ conn' = force_key_update(conn)
    /\ env' = [env EXCEPT !.appcalls = @ + 1]
    /\ tx' = NoTx
    /\ UNCHANGED now

KeyForceKeyUpdate == ForceKeyUpdate(KeyMaxAppCalls)

KeyKeyDiscard == Timeout("KeyDiscard", KeyMaxTimeouts)

KeyNext ==
    \/ KeyReceive
    \/ KeyPoll
    \/ KeyForceKeyUpdate
    \/ KeyKeyDiscard
    \/ Advance

KeySpec == KeyInit /\ [][KeyNext]_vars

----------------------------------------------------------------------------
\* Properties of KeySpec

\* the step discards the Handshake space
HandshakeDiscarded == conn.spaces[Handshake].crypto /\ ~conn'.spaces[Handshake].crypto

\* Handshake CRYPTO data is queued or in flight
HandshakeCryptoOutstanding ==
    \/ conn.spaces[Handshake].pending.crypto # <<>>
    \/ SumSent(conn.spaces[Handshake].sent_packets, SentCrypto) > 0

\* C26: the Handshake space is discarded only after the handshake is complete
\* and, on a server, after it has sent a Handshake packet that acknowledges the
\* peer's TLS FIN or, on a client, after all Handshake CRYPTO data has been
\* acknowledged, none in flight and none pending; no other event, a KeyDiscard
\* timer armed for a 1-RTT key update included, discards it earlier.
C26_HandshakeSpaceKept ==
    [][HandshakeDiscarded =>
          /\ ~is_handshake(conn)
          /\ is_client(conn) => ~HandshakeCryptoOutstanding
          /\ is_server(conn) => tx.largest[Handshake] >= 0]_vars

\* decrypt_packet accepts the packet with this number sealed with the keys of
\* this generation: these are the keys the connection decrypts it with
Decrypts(number, generation) ==
    decrypt_packet(conn, now, KeyPacket(number, generation)).res # "drop"

\* the packets the peer may send: any number, keys of any generation
KeyPackets == (0..KeyMaxNumber) \X (0..(KeyMaxGeneration + 1))

----------------------------------------------------------------------------
\* Explicit congestion notification: a client that sends PINGs and a server
\* whose ACKs report ECN counts of any size, or none

EcnMaxDatagrams == 3

EcnMaxTransmits == 7

EcnMaxAppCalls == 4

\* the largest ECT(0) count the peer reports
EcnMaxCount == 3

EcnInit ==
    /\ conn = connection_new("Client", TransportConfig(0, 0), 0, FALSE,
                             TransportParameters(2, FALSE, "none"), {})
    /\ now = 0
    /\ env = EnvInit
    /\ tx = TxInit

\* the counts an ACK frame may carry
EcnCounts == {[ect0 |-> a, ect1 |-> 0, ce |-> ce] : a \in 0..EcnMaxCount, ce \in {0, 1}}

\* ACKs of every Data packet sent so far, with or without ECN counts
EcnAcks ==
    LET n == conn.spaces[Data].next_packet_number - 1
    IN  IF n < 0 THEN {}
        ELSE {AckFrame(n, 0..n)} \cup {[AckFrame(n, 0..n) EXCEPT !.ecn = {e}] : e \in EcnCounts}

EcnDatagrams ==
    {<<Pkt("Initial", <<CryptoFrame(0, 1)>>), Pkt("Handshake", <<CryptoFrame(0, 1)>>)>>}
    \cup {<<Pkt("Short", <<ack>>)>> : ack \in EcnAcks}

EcnReceive == \E d \in EcnDatagrams : ReceiveDatagram(Dgram(d), EcnMaxDatagrams)

EcnPoll == Poll(EcnMaxTransmits)

EcnPing == Ping(EcnMaxAppCalls)

EcnNext ==
    \/ EcnReceive
    \/ EcnPoll
    \/ EcnPing
    \/ Advance

EcnSpec == EcnInit /\ [][EcnNext]_vars



----------------------------------------------------------------------------
\* Properties of EcnSpec

----------------------------------------------------------------------------
\* Packet reception: a client that knows its server's stateless reset token
\* receives 1-RTT packets that are authentic or forged, numbered in any order,
\* and that may end in the token; either side may close

RxMaxDatagrams == 3

RxMaxTransmits == 3

\* the highest packet number the peer uses
RxMaxNumber == 2

RxInit ==
    /\ conn = connection_new("Client", TransportConfig(0, 0), 0, FALSE,
                             TransportParameters(2, TRUE, "none"), {})
    /\ now = 0
    /\ env = EnvInit
    /\ tx = TxInit

\* a packet with a given number; sealed tells whether it authenticates, reset
\* whether its trailing bytes are the stateless reset token
RxPacket(hdr, frames, number, sealed, ends_in_token) ==
    [Pkt(hdr, frames) EXCEPT !.number = number, !.sealed = sealed, !.reset = ends_in_token]

RxPackets ==
    {RxPacket("Short", <<Frame(ty)>>, n, s, r) :
        ty \in {"PING", "CONNECTION_CLOSE"}, n \in 0..RxMaxNumber,
        s \in BOOLEAN, r \in BOOLEAN}
    \cup {RxPacket("Initial", <<Frame("PING")>>, n, FALSE, r) :
            n \in 0..RxMaxNumber, r \in BOOLEAN}

RxDatagrams ==
    {<<Pkt("Initial", <<CryptoFrame(0, 1)>>), Pkt("Handshake", <<CryptoFrame(0, 1)>>)>>}
    \cup {<<pk>> : pk \in RxPackets}

\* a datagram the connection takes no notice of does not count
RxReceive == \E d \in RxDatagrams : ReceiveDatagram(Dgram(d), RxMaxDatagrams)

RxPoll == Poll(RxMaxTransmits)

RxNext ==
    \/ RxReceive
    \/ RxPoll
    \/ Close
    \/ TimeoutClose
    \/ Advance

RxSpec == RxInit /\ [][RxNext]_vars


----------------------------------------------------------------------------
\* Properties of RxSpec

\* packets whose trailing bytes are the stateless reset token: of any
\* protected type, authentic or not, with any number
ResetPackets == {pk \in RxPackets : pk.reset}

\* the connection after a datagram made of one packet from its remote
AfterPacket(pk) == handle_datagram(conn, now, conn.remote, FALSE, <<pk>>)

\* the connection was reset by the datagram: Drained at once, with
\* ConnectionLost{Reset} queued, the Close timer stopped and, unless it was
\* Drained before, a Drained endpoint event queued
WasReset(after) ==
    /\ after.state = "Drained"
    /\ after.events = Append(conn.events, ConnectionLost("Reset"))
    /\ after.timers["Close"] = {}
    /\ after.endpoint_events =
          IF conn.state = "Drained" THEN conn.endpoint_events
          ELSE Append(conn.endpoint_events, [type |-> "Drained", arg |-> "none"])

\* the statement that every datagram ending in the known token resets the
\* connection and queues the Drained endpoint event, in whatever state and
\* whether or not the packet decrypts
C17_AnyResetDatagram ==
    conn.params.stateless_reset_token =>
        \A pk \in ResetPackets :
           /\ AfterPacket(pk).state = "Drained"
           /\ AfterPacket(pk).events = Append(conn.events, ConnectionLost("Reset"))
           /\ AfterPacket(pk).endpoint_events =
                 Append(conn.endpoint_events, [type |-> "Drained", arg |-> "none"])

\* C17: once the peer's stateless reset token is known, a packet that ends in
\* the token, belongs to a space whose keys are held and either fails
\* authentication or repeats a packet number already accepted resets the
\* connection at once, in whatever state it was; the Drained endpoint event is
\* queued unless the connection was Drained already.  A packet of a space
\* without keys is dropped, and an authentic packet with a fresh number is
\* processed like any other packet.
C17_ResetRecognised ==
    conn.params.stateless_reset_token =>
        \A pk \in ResetPackets :
           IF ~conn.spaces[pk.space].crypto
           THEN AfterPacket(pk) = [conn EXCEPT !.total_recvd = @ + pk.len]
           ELSE IF ~pk.sealed \/ DedupIsDuplicate(conn.spaces[pk.space].dedup, pk.number)
           THEN WasReset(AfterPacket(pk))
           ELSE AfterPacket(pk) =
                   handle_datagram(conn, now, conn.remote, FALSE, <<[pk EXCEPT !.reset = FALSE]>>)

\* a stateless reset has ended a connection that had been closed before
C17_Witness ==
    /\ conn.params.stateless_reset_token
    /\ conn.state = "Drained"
    /\ Len(conn.events) >= 2
    /\ conn.events[Len(conn.events)] = ConnectionLost("Reset")
    /\ DrainedQueued



\* packets that fail authentication and do not end in the stateless reset
\* token: the tag does not verify, or a 1-RTT packet is sealed with keys of a
\* generation the connection does not hold
ForgedPackets ==
    {pk \in RxPackets : ~pk.sealed /\ ~pk.reset}
    \cup {[RxPacket("Short", <<Frame("PING")>>, n, TRUE, FALSE) EXCEPT !.key = conn.key_gen + 2] :
            n \in 0..RxMaxNumber}

\* the connection after a datagram made of one packet from its remote, with
\* or without an ECN codepoint
AfterDatagram(pk, ecn) == handle_datagram(conn, now, conn.remote, ecn, <<pk>>)

\* the statement that a packet failing authentication changes nothing at all
C18_ForgedChangesNothing ==
    \A pk \in ForgedPackets, ecn \in BOOLEAN : AfterDatagram(pk, ecn) = conn

\* C18: a received packet that fails authentication and does not end in the
\* stateless reset token is dropped silently: connection state, keys and key
\* phase, prev_crypto, dedup window, pending acks, rx_packet, timers and event
\* queues are unchanged, and the only field that changes is total_recvd, the
\* count of bytes received, which grows by the datagram's length.
C18_ForgedOnlyCounted ==
    \A pk \in ForgedPackets, ecn \in BOOLEAN :
       AfterDatagram(pk, ecn) = [conn EXCEPT !.total_recvd = @ + pk.len]

\* forged packets have arrived, and nothing else, on an open connection
C18_Witness ==
    /\ conn.total_recvd > 0
    /\ env.datagrams = RxMaxDatagrams
    /\ conn.state = "Established"
    /\ conn.spaces[Data].dedup = DedupNew
    /\ conn.events = <<[type |-> "Connected", arg |-> "none"]>>



\* the packet numbers of a space whose packets were processed
Accepted(space) == {n \in 0..RxMaxNumber : <<space, n>> \in conn.gh_processed}

\* the number is older than the window of the latest WINDOW_SIZE numbers that
\* ends at the largest number accepted in the space
BelowWindow(space, n) == \E m \in Accepted(space) : n + WINDOW_SIZE <= m

Replayed(pk) == pk.number \in Accepted(pk.space) \/ BelowWindow(pk.space, pk.number)

\* the packets of RxDatagrams
ReplayPackets == RxPackets \cup {Pkt("Initial", <<CryptoFrame(0, 1)>>)}

\* the packet authenticates: the keys of its space are there and
\* decrypt_packet yields its number
Authenticates(pk) ==
    conn.spaces[pk.space].crypto /\ decrypt_packet(conn, now, pk).res = "number"

\* the packet of the datagram reached on_packet_authenticated and its frames
Processed(after) == after.gh_nprocessed = conn.gh_nprocessed + 1

\* the packet was discarded after decryption: the datagram is counted and
\* nothing else happened
Discarded(pk, after) ==
    after = [decrypt_packet(conn, now, pk).c EXCEPT !.total_recvd = @ + pk.len]

\* what handle_packet does with an authenticated packet, replayed or fresh
ReplayRejected(pk) ==
    /\ Processed(AfterPacket(pk)) <=> ~Replayed(pk)
    /\ Replayed(pk) /\ ~(conn.params.stateless_reset_token /\ pk.reset)
          => Discarded(pk, AfterPacket(pk))

-----------------------------------------------------------------------------
\* MigSpec: a server whose peer moves to a new address and answers, or does
\* not answer, the path challenge

MigMaxDatagrams == 3

MigMaxTransmits == 3

MigMaxTimeouts == 1

\* the token of the challenge and another one
Tokens == {1, 2}

MigResponse(token) == Pkt("Short", <<PathFrame("PATH_RESPONSE", token)>>)

MigPackets ==
    {Pkt("Handshake", <<CryptoFrame(0, 1)>>), Pkt("Short", <<Frame("PING")>>)}
    \cup {MigResponse(token) : token \in Tokens}

MigReceive ==
    \E pk \in MigPackets, remote \in Remotes :
        ReceiveDatagram([remote |-> remote, ecn |-> FALSE, packets |-> <<pk>>], MigMaxDatagrams)

MigPoll == Poll(MigMaxTransmits)

MigPathValidation == Timeout("PathValidation", MigMaxTimeouts)

MigNext ==
    \/ AmpAccept
    \/ MigReceive
    \/ MigPoll
    \/ MigPathValidation
    \/ Advance

MigSpec == AmpInit /\ [][MigNext]_vars

\* the connection after a datagram that carries PATH_RESPONSE(token) alone
AfterResponse(remote, token) ==
    handle_datagram(conn, now, remote, FALSE, <<MigResponse(token)>>)

\* an established server has migrated and its challenge is outstanding
Migrated ==
    /\ is_server(conn) /\ is_established(conn)
    /\ IsSome(conn.path_challenge)
    /\ IsSome(conn.prev_remote)

\* what the response changes of the path state, apart from prev_remote:
\* Migrated(remote) queued, the PathValidation timer stopped, the challenge
\* cleared and the remote validated when token and address match, and nothing
\* otherwise
PathValidated(remote, token, after) ==
    IF conn.path_challenge = {token} /\ remote = conn.remote
    THEN /\ after.endpoint_events =
               Append(conn.endpoint_events, [type |-> "Migrated", arg |-> conn.remote])
         /\ after.timers["PathValidation"] = {}
         /\ after.path_challenge = {}
         /\ after.remote_validated
    ELSE /\ after.endpoint_events = conn.endpoint_events
         /\ after.timers["PathValidation"] = conn.timers["PathValidation"]
         /\ after.path_challenge = conn.path_challenge
         /\ after.remote_validated = conn.remote_validated
         /\ after.remote = conn.remote

\* the response, whichever its token and address, leaves prev_remote alone
C20_PrevRemoteKept ==
    Migrated =>
       \A remote \in Remotes, token \in Tokens :
          /\ PathValidated(remote, token, AfterResponse(remote, token))
          /\ AfterResponse(remote, token).prev_remote = conn.prev_remote

\* C20: after a server migrated to a new remote with challenge token T, a
\* PATH_RESPONSE(T) from that remote queues Migrated(remote), stops the
\* PathValidation timer, clears the challenge, clears prev_remote and sets
\* remote_validated; a PATH_RESPONSE with another token or from another address
\* changes none of these
C20_ValidationCompletes ==
    Migrated =>
       \A remote \in Remotes, token \in Tokens :
          /\ PathValidated(remote, token, AfterResponse(remote, token))
          /\ AfterResponse(remote, token).prev_remote =
                IF conn.path_challenge = {token} /\ remote = conn.remote
                THEN {} ELSE conn.prev_remote



\* the addresses a datagram may come from: those of Remotes and a third one
Addresses == Remotes \cup {2}

\* the frames that leave a packet a probing one (process_payload)
ProbingOnly(pk) ==
    \A i \in 1..Len(pk.frames) :
       pk.frames[i].type \in {"PADDING", "PATH_CHALLENGE", "PATH_RESPONSE", "NEW_CONNECTION_ID"}

\* the connection after a datagram of one packet from some address
AfterFrom(remote, pk) == handle_datagram(conn, now, remote, FALSE, <<pk>>)

\* the datagram started a migration: the remote or the address to fall back
\* to is another one
StartsMigration(after) ==
    after.remote # conn.remote \/ after.prev_remote \notin {conn.prev_remote, {}}

\* C22: a migration is initiated only on a server, only by a packet from an
\* address other than the current remote that contains a non-probing frame,
\* and only while no PATH_CHALLENGE is outstanding; a packet from a third
\* address that arrives during a validation starts no other migration and
\* leaves prev_remote alone.
C22_MigrationOnlyWhenIdle ==
    \A remote \in Addresses, pk \in MigPackets :
       StartsMigration(AfterFrom(remote, pk)) =>
          /\ is_server(conn)
          /\ remote # conn.remote
          /\ ~ProbingOnly(pk)
          /\ conn.path_challenge = {}



\* C23: when the PathValidation timer expires the connection goes back to
\* prev_remote, the address in use before the migration, gives up the
\* outstanding challenge and sends no PATH_CHALLENGE any more; without a
\* pending migration (prev_remote is none) the remote stays as it is.
C23_TimeoutReverts ==
    /\ [](conn.prev_remote = {} =>
             timeout(conn, now, "PathValidation").remote = conn.remote)
    /\ [][/\ MigPathValidation =>
                /\ conn'.remote = IF IsSome(conn.prev_remote)
                                  THEN Get(conn.prev_remote) ELSE conn.remote
                /\ conn'.prev_remote = {}
                /\ conn'.path_challenge = {}
                /\ ~conn'.path_challenge_pending
                /\ conn'.timers["PathValidation"] = {}
           /\ \A T \in tx'.out : "PATH_CHALLENGE" \in T.frames => IsSome(conn.path_challenge)
         ]_vars

\* the timer has expired on a migrated server, which is back on the first
\* address of its peer and has transmitted a packet since
C23_Witness ==
    /\ env.timeouts = 1
    /\ conn.remote = 0 /\ conn.prev_remote = {} /\ conn.path_challenge = {}
    /\ conn.remote_validated
    /\ \E T \in tx.out : "PATH_CHALLENGE" \notin T.frames


----------------------------------------------------------------------------
\* HsSpec: a client whose server's handshake packets arrive one by one and out
\* of order, with a Retry among them

HsMaxDatagrams == 3

HsMaxTransmits == 4

HsDatagrams ==
    {<<Pkt("Initial", <<CryptoFrame(0, 1)>>)>>,
     <<Pkt("Handshake", <<CryptoFrame(1, 1)>>)>>,
     <<Pkt("Handshake", <<CryptoFrame(0, 1)>>)>>,
     <<RetryPacket>>}

HsReceive == \E d \in HsDatagrams : ReceiveDatagram(Dgram(d), HsMaxDatagrams)

HsPoll == Poll(HsMaxTransmits)

HsNext ==
    \/ HsReceive
    \/ HsPoll
    \/ Advance

HsSpec == KeyInit /\ [][HsNext]_vars

\* the step discards the Initial space
InitialDiscarded == conn.spaces[Initial].crypto /\ ~conn'.spaces[Initial].crypto

\* the step authenticated a Handshake packet on a server
ServerGotHandshake ==
    /\ is_server(conn) /\ ~is_closed(conn)
    /\ \E n \in 0..MaxDatagrams :
          <<Handshake, n>> \in conn'.gh_processed \ conn.gh_processed

\* the step transmitted a Handshake packet on a client
ClientSentHandshake ==
    is_client(conn) /\ \E T \in tx'.out : T.space = Handshake

\* an Initial packet that would be processed if the keys were there
LateInitial == Pkt("Initial", <<CryptoFrame(0, 1)>>)

\* C27: the Initial space is discarded exactly when a server authenticates its
\* first Handshake packet or a client transmits its first Handshake packet;
\* from then on the Initial space has no keys and no sent packets, every
\* Initial packet received is dropped without processing and no Initial packet
\* is transmitted.
C27_InitialSpaceDiscarded ==
    /\ [](~conn.spaces[Initial].crypto =>
             /\ conn.spaces[Initial].sent_packets = NoPackets
             /\ handle_datagram(conn, now, conn.remote, FALSE, <<LateInitial>>)
                   = [conn EXCEPT !.total_recvd = @ + LateInitial.len])
    /\ [][/\ InitialDiscarded => ServerGotHandshake \/ ClientSentHandshake
          /\ ServerGotHandshake \/ ClientSentHandshake => ~conn'.spaces[Initial].crypto
          /\ ~conn.spaces[Initial].crypto =>
                /\ ~conn'.spaces[Initial].crypto
                /\ \A T \in tx'.out : T.space # Initial]_vars


----------------------------------------------------------------------------
\* CcSpec: loss detection and the congestion window.  A client sends its first
\* Initial packet and receives the server's handshake flight; in the spaces it
\* then has keys for, packets of the three kinds poll_transmit records
\* (ack-eliciting, ACK-only, padded ACK-only) are recorded as sent at chosen
\* times and acknowledged in any order.

CcMaxTime == 2

CcMaxNumber == 1

CcMaxDatagrams == 3

\* the SentPacket of poll_transmit: an ACK-only packet has size 0 unless it
\* was padded
CcKinds ==
    {[ack_eliciting |-> TRUE, size |-> MIN_MTU],
     [ack_eliciting |-> FALSE, size |-> 0],
     [ack_eliciting |-> FALSE, size |-> MIN_MTU]}

CcSpaces == {Handshake, Data}

CcPacket(space, kind) ==
    [ acks |-> {}, time_sent |-> now, size |-> kind.size,
      is_crypto_packet |-> space # Data /\ kind.ack_eliciting,
      ack_eliciting |-> kind.ack_eliciting, retransmits |-> RetransmitsDefault, uid |-> 0 ]

\* poll_transmit takes the next packet number and records the packet
\* poll_transmit sends the ClientHello
CcPoll == conn.spaces[Initial].next_packet_number = 0 /\ Poll(1)

\* the server's Initial and Handshake packets arrive in one datagram
CcHandshake ==
    /\ conn.spaces[Initial].next_packet_number > 0
    /\ env.datagrams = 0
    /\ ReceiveDatagram(Dgram(<<Pkt("Initial", <<CryptoFrame(0, 1)>>),
                               Pkt("Handshake", <<CryptoFrame(0, 1)>>)>>), CcMaxDatagrams)

CcSend ==
    /\ \E space \in CcSpaces, kind \in CcKinds :
          /\ conn.spaces[space].crypto
          /\ conn.spaces[space].next_packet_number <= CcMaxNumber
          /\ conn' = on_packet_sent(get_tx_number(conn, space), now, space,
                                    conn.spaces[space].next_packet_number,
                                    CcPacket(space, kind))
    /\ UNCHANGED <<now, env, tx>>

\* an ACK frame is processed
CcAck ==
    /\ env.datagrams < CcMaxDatagrams
    /\ \E space \in CcSpaces : \E ack \in AckFrames(space) :
          /\ conn.spaces[space].crypto
          /\ ack.ecn = {}
          /\ conn' = on_ack_received(conn, now, space, ack)
    /\ conn' # conn
    /\ env' = [env EXCEPT !.datagrams = @ + 1]
    /\ UNCHANGED <<now, tx>>

CcTick ==
    /\ now < CcMaxTime
    /\ now' = now + 1
    /\ UNCHANGED <<conn, env, tx>>

CcNext ==
    \/ CcPoll
    \/ CcHandshake
    \/ CcSend
    \/ CcAck
    \/ CcTick

CcSpec == KeyInit /\ [][CcNext]_vars

\* loss_delay of detect_lost_packets: max(smoothed_rtt, latest_rtt) scaled by
\* 1 + time_threshold / 65536
LossDelay(c) ==
    LET rtt == IF IsSome(c.rtt.smoothed) THEN Max(Get(c.rtt.smoothed), c.rtt.latest)
               ELSE c.rtt.latest
    IN  rtt + ((rtt * c.config.time_threshold) \div 65536)

\* the packets below largest_acked that detect_lost_packets leaves in flight
Remaining(c, after, space) ==
    {n \in DOMAIN after.spaces[space].sent_packets :
        n < c.spaces[space].largest_acked_packet}

\* C28: detect_lost_packets declares a sent packet lost only if it was sent
\* loss_delay ago or before, or its number is at most largest_acked minus
\* packet_threshold, also when largest_acked is below packet_threshold and for
\* packet 0; the packets below largest_acked that remain give the space's
\* loss_time, the earliest of their projected loss times, or none.
C28_LostByTimeOrNumber ==
    [][Len(conn'.gh_lost) > Len(conn.gh_lost) =>
          \A s \in SpaceIds :
             /\ \A n \in LostIn(s) :
                   \/ conn.spaces[s].sent_packets[n].time_sent <= now - LossDelay(conn')
                   \/ n <= conn'.spaces[s].largest_acked_packet - conn.config.packet_threshold
             /\ LostIn(s) # {} =>
                   conn'.spaces[s].loss_time =
                      IF Remaining(conn', conn', s) = {} THEN {}
                      ELSE {SetMin({conn'.spaces[s].sent_packets[n].time_sent
                                       + LossDelay(conn') :
                                          n \in Remaining(conn', conn', s)})}]_vars


\* the packets of a space the step acknowledged
AckedIn(space) ==
    {n \in DOMAIN conn.spaces[space].sent_packets :
        conn.spaces[space].sent_packets[n].uid \in NewlyAcked}

\* the step declared packets lost, none of them ack-eliciting, and acknowledged
\* no ack-eliciting packet
OnlyAckOnlyLost ==
    /\ Len(conn'.gh_lost) > Len(conn.gh_lost)
    /\ \A s \in SpaceIds :
          \A n \in LostIn(s) \cup AckedIn(s) : ~conn.spaces[s].sent_packets[n].ack_eliciting

\* C29: loss detection that declares only packets lost that are not
\* ack-eliciting, ACK-only packets padded or not, is no congestion event:
\* congestion_window, ssthresh and recovery_start_time stay as they were.
C29_AckOnlyLossIsNoCongestion ==
    [][OnlyAckOnlyLost =>
          /\ conn'.congestion_window = conn.congestion_window
          /\ conn'.ssthresh = conn.ssthresh
          /\ conn'.recovery_start_time = conn.recovery_start_time]_vars


-----------------------------------------------------------------------------
\* NrSpec: the NewReno window with the sizes of a deployment.  A client with
\* initial_window 12000 completes the key exchange, records sent packets of 1200
\* bytes in the Data space and receives ACK frames that each name one packet.

NrMaxTime == 2

NrMaxNumber == 11

NrMaxDatagrams == 12

\* datagrams of 1200 bytes, a first window of ten and a least window of two
NrConfig ==
    [TransportConfig(0, 0) EXCEPT !.initial_window = 12000,
                                  !.minimum_window = 2400,
                                  !.max_datagram_size = 1200]

NrInit ==
    /\ conn = connection_new("Client", NrConfig, 0, FALSE,
                             TransportParameters(2, FALSE, "none"), {})
    /\ now = 0
    /\ env = EnvInit
    /\ tx = TxInit

NrPoll == CcPoll

NrHandshake == CcHandshake

\* the packets poll_transmit records: full-size ack-eliciting ones, and after
\* the first ten also ACK-only ones
NrKinds ==
    {[ack_eliciting |-> TRUE, size |-> 1200]}
       \cup (IF conn.spaces[Data].next_packet_number >= 10
             THEN {[ack_eliciting |-> FALSE, size |-> 0]} ELSE {})

NrSend ==
    /\ conn.spaces[Data].crypto
    /\ conn.spaces[Data].next_packet_number <= NrMaxNumber
    /\ now > 0
    /\ \E kind \in NrKinds :
          conn' = on_packet_sent(get_tx_number(conn, Data), now, Data,
                                 conn.spaces[Data].next_packet_number,
                                 CcPacket(Data, kind))
    /\ UNCHANGED <<now, env, tx>>

\* an ACK frame that names one outstanding packet, the oldest or the newest
NrAck ==
    /\ env.datagrams < NrMaxDatagrams
    /\ DOMAIN conn.spaces[Data].sent_packets # {}
    /\ \E n \in {SetMin(DOMAIN conn.spaces[Data].sent_packets),
                  SetMax(DOMAIN conn.spaces[Data].sent_packets)} :
          conn' = on_ack_received(conn, now, Data, AckFrame(n, {n}))
    /\ env' = [env EXCEPT !.datagrams = @ + 1]
    /\ UNCHANGED <<now, tx>>

\* time passes before the first window of ten packets is sent and after it
NrTick ==
    /\ now < NrMaxTime
    /\ now = 0 \/ conn.spaces[Data].next_packet_number >= 10
    /\ now' = now + 1
    /\ UNCHANGED <<conn, env, tx>>

NrNext ==
    \/ NrPoll
    \/ NrHandshake
    \/ NrSend
    \/ NrAck
    \/ NrTick

NrSpec == NrInit /\ [][NrNext]_vars


\* the bytes the acknowledgement of a sent packet adds to the window
Growth(c, info) ==
    IF info.ack_eliciting /\ info.time_sent > c.recovery_start_time
    THEN IF c.congestion_window < c.ssthresh
         THEN info.size
         ELSE (c.config.max_datagram_size * info.size) \div c.congestion_window
    ELSE 0

\* the window a congestion event leaves
Reduced(c, window) ==
    Max((window * c.config.loss_reduction_factor) \div 65536, c.config.minimum_window)

\* on_packet_acked of any sent packet adds Growth to the window and changes
\* nothing else of the congestion state
AckGrows ==
    \A s \in SpaceIds : \A n \in DOMAIN conn.spaces[s].sent_packets :
       LET after == on_packet_acked(conn, s, n)
       IN  /\ after.congestion_window
                = conn.congestion_window + Growth(conn, conn.spaces[s].sent_packets[n])
           /\ after.ssthresh = conn.ssthresh
           /\ after.recovery_start_time = conn.recovery_start_time

\* congestion_event for a packet sent at any time up to now
EventReduces ==
    \A sent_time \in 0 .. now :
       LET after == congestion_event(conn, now, sent_time)
       IN  IF sent_time > conn.recovery_start_time
           THEN /\ after.recovery_start_time = now
                /\ after.congestion_window = Reduced(conn, conn.congestion_window)
                /\ after.ssthresh = after.congestion_window
           ELSE after = conn

\* ten full-size packets sent outside recovery have been acknowledged and no
\* packet was lost
TenAcked ==
    /\ conn.gh_lost = <<>>
    /\ Len(conn.gh_acked) = 10
    /\ conn.spaces[Data].next_packet_number >= 10
    /\ (0 .. 9) \cap DOMAIN conn.spaces[Data].sent_packets = {}

\* the step of an ACK frame: the window grows by the packet acknowledged, and
\* a loss of ack-eliciting packets sent after recovery_start_time reduces it
AckStep ==
    \A n \in AckedIn(Data) :
       LET sent == conn.spaces[Data].sent_packets
           grown == conn.congestion_window + Growth(conn, sent[n])
           lost == LostIn(Data)
           event == /\ \E k \in lost : sent[k].ack_eliciting
                    /\ sent[SetMax(lost)].time_sent > conn.recovery_start_time
       IN  IF event
           THEN /\ conn'.recovery_start_time = now
                /\ conn'.congestion_window = Reduced(conn, grown)
                /\ conn'.ssthresh = conn'.congestion_window
                /\ (conn.congestion_window = 24000 /\ ~sent[n].ack_eliciting)
                      => conn'.congestion_window = 12000
           ELSE /\ conn'.recovery_start_time = conn.recovery_start_time
                /\ conn'.congestion_window = grown
                /\ conn'.ssthresh = conn.ssthresh

\* C30: the NewReno window.  An acknowledged ack-eliciting packet sent after
\* recovery_start_time adds its size below ssthresh and
\* max_datagram_size * size / congestion_window otherwise, any other packet
\* adds nothing; a congestion event for a packet sent after
\* recovery_start_time sets recovery_start_time to now and congestion_window
\* and ssthresh to max(congestion_window * loss_reduction_factor / 65536,
\* minimum_window), one for an earlier packet changes nothing.  From a window
\* of 12000, ten acknowledged packets of 1200 bytes give 24000, and a loss
\* then gives a window and ssthresh of 12000.
C30_NewRenoWindow ==
    /\ [](/\ AckGrows
          /\ EventReduces
          /\ TenAcked => conn.congestion_window = 24000)
    /\ [][AckStep]_vars

\* the window after ten acknowledgements, an acknowledged ACK-only packet and
\* the loss of one packet
C30_Witness ==
    /\ Len(conn.gh_acked) = 11
    /\ Len(conn.gh_lost) = 1
    /\ conn.congestion_window = 12000
    /\ conn.ssthresh = 12000
    /\ conn.recovery_start_time > 0


-----------------------------------------------------------------------------
\* LdSpec: the loss detection timer.  A connection of either side goes through
\* the handshake with a clock that runs long enough for the handshake
\* retransmission timer and the probe timer to expire at their deadlines.  Once
\* established, ack-eliciting packets are recorded as sent in the Data space,
\* and the peer acknowledges any of the Handshake and Data packets sent, so
\* that a packet below the largest acknowledged one can be left waiting for
\* its loss time.

LdMaxTime == 3

LdMaxNumber == 2

LdMaxDatagrams == 3

LdMaxTransmits == 3

LdMaxTimeouts == 2

LdInit == AmpInit \/ KeyInit

LdAccept ==
    AcceptDatagram(Dgram(<<[Pkt("Initial", <<CryptoFrame(0, 1)>>) EXCEPT !.len = MIN_MTU]>>))

\* the peer's handshake flight: a server's, which acknowledges the ClientHello,
\* whole or its Initial packet alone, and a client's
LdDatagrams ==
    {<<Pkt("Initial", <<AckFrame(0, {0}), CryptoFrame(0, 1)>>),
       Pkt("Handshake", <<CryptoFrame(0, 1)>>)>>,
     <<Pkt("Initial", <<AckFrame(0, {0}), CryptoFrame(0, 1)>>)>>,
     <<Pkt("Handshake", <<CryptoFrame(0, 1)>>)>>}

LdReceive ==
    /\ conn.state = "Handshake"
    /\ \E d \in LdDatagrams : ReceiveDatagram(Dgram(d), LdMaxDatagrams)

LdPoll == Poll(LdMaxTransmits)

\* poll_transmit records an ack-eliciting 1-RTT packet
LdSend ==
    /\ Live
    /\ conn.state = "Established"
    /\ conn.spaces[Data].next_packet_number <= LdMaxNumber
    /\ conn' = on_packet_sent(get_tx_number(conn, Data), now, Data,
                              conn.spaces[Data].next_packet_number,
                              CcPacket(Data, [ack_eliciting |-> TRUE, size |-> MIN_MTU]))
    /\ tx' = NoTx
    /\ UNCHANGED <<now, env>>

\* the ACK frames of a space: of the newest packet alone or of all packets
LdAcks(space) ==
    LET n == conn.spaces[space].next_packet_number - 1
    IN  IF n < 0 THEN {} ELSE {AckFrame(n, {n}), AckFrame(n, 0 .. n)}

\* an ACK frame of the Handshake or the Data space is processed
LdAck ==
    /\ Live
    /\ env.datagrams < LdMaxDatagrams
    /\ \E space \in CcSpaces : \E ack \in LdAcks(space) :
          /\ conn.spaces[space].crypto
          /\ conn' = on_ack_received(conn, now, space, ack)
    /\ conn' # conn
    /\ env' = [env EXCEPT !.datagrams = @ + 1]
    /\ tx' = NoTx
    /\ UNCHANGED now

\* the host delivers the LossDetection timer once its deadline has come
LdLossDetection ==
    /\ Live
    /\ conn.timers["LossDetection"] # {}
    /\ Get(conn.timers["LossDetection"]) <= now
    /\ env.timeouts < LdMaxTimeouts
    /\ conn' = timeout(timer_stop(conn, "LossDetection"), now, "LossDetection")
    /\ env' = [env EXCEPT !.timeouts = @ + 1]
    /\ tx' = NoTx
    /\ UNCHANGED now

\* time passes once the host has sent what poll_transmit has for it and has
\* delivered the timer that is due
LdTick ==
    /\ now < LdMaxTime
    /\ IF Live /\ Transmits < LdMaxTransmits THEN poll_transmit(conn, now).out = {} ELSE TRUE
    /\ IF Live /\ env.timeouts < LdMaxTimeouts /\ conn.timers["LossDetection"] # {}
       THEN Get(conn.timers["LossDetection"]) > now
       ELSE TRUE
    /\ now' = now + 1
    /\ tx' = NoTx
    /\ UNCHANGED <<conn, env>>

LdNext ==
    \/ LdAccept
    \/ LdReceive
    \/ LdPoll
    \/ LdSend
    \/ LdAck
    \/ LdLossDetection
    \/ LdTick

LdSpec == LdInit /\ [][LdNext]_vars


\* the loss times the spaces hold
LossTimes == {Get(conn.spaces[s].loss_time) : s \in {x \in SpaceIds : conn.spaces[x].loss_time # {}}}

\* handshake data is outstanding or the client still waits for the handshake
CryptoOutstanding ==
    \/ conn.in_flight.crypto > 0
    \/ conn.crypto_count > 0
    \/ (is_client(conn) /\ conn.state = "Handshake")

\* the deadline of the handshake retransmission timer
CryptoDeadline ==
    LET srtt == IF conn.rtt.smoothed = {} THEN conn.config.initial_rtt
                ELSE Get(conn.rtt.smoothed)
    IN  conn.time_of_last_sent_crypto_packet
           + Max(2 * srtt, TIMER_GRANULARITY) * 2 ^ Min(conn.crypto_count, 16)

\* the deadline of the probe timer
ProbeDeadline ==
    conn.time_of_last_sent_ack_eliciting_packet + pto(conn) * 2 ^ Min(conn.pto_count, 16)

\* the LossDetection timer the four rules give in the current state
TimerByPriority ==
    IF LossTimes # {} THEN {SetMin(LossTimes)}
    ELSE IF CryptoOutstanding THEN {CryptoDeadline}
    ELSE IF conn.in_flight.ack_eliciting = 0 THEN {}
    ELSE {ProbeDeadline}

\* C31: set_loss_detection_timer chooses by strict priority: the earliest
\* loss_time of any space; else, with crypto packets in flight, crypto_count
\* above 0 or a client in Handshake, time_of_last_sent_crypto_packet +
\* max(2 * srtt, granularity) * 2^min(crypto_count, 16); else, with no
\* ack-eliciting packet in flight, it stops the timer; else
\* time_of_last_sent_ack_eliciting_packet + pto * 2^min(pto_count, 16).  It
\* changes nothing but the timer, and never leaves it running when no
\* ack-eliciting packet is in flight and neither of the first two rules applies.
C31_TimerPriority ==
    LET after == set_loss_detection_timer(conn)
    IN  /\ after.timers["LossDetection"] = TimerByPriority
        /\ after = [conn EXCEPT !.timers["LossDetection"] = TimerByPriority]
        /\ (LossTimes = {} /\ ~CryptoOutstanding /\ conn.in_flight.ack_eliciting = 0)
              => after.timers["LossDetection"] = {}

\* a space holds a loss time and the timer runs to it, while handshake data
\* is outstanding or ack-eliciting packets are in flight
C31_Witness ==
    /\ LossTimes # {}
    /\ conn.timers["LossDetection"] = {SetMin(LossTimes)}
    /\ conn.in_flight.ack_eliciting > 0
    /\ SetMin(LossTimes) # ProbeDeadline


\* the step is the expiry of the LossDetection timer
LossDetectionTimeout == env'.timeouts = env.timeouts + 1

\* the counters the timeout keeps: probes, crypto_count, pto_count
Counters(c) == <<c.probes, c.crypto_count, c.pto_count>>

\* the space whose loss_time is the earliest, the lowest of them
EarliestSpace ==
    SetMin({s \in SpaceIds : conn.spaces[s].loss_time = {SetMin(LossTimes)}})

\* loss detection ran for the space: the packets below largest_acked that have
\* reached the time threshold are gone and the counters are as before
DetectionRan(s) ==
    /\ Counters(conn') = Counters(conn)
    /\ \A x \in SpaceIds \ {s} : conn'.spaces[x] = conn.spaces[x]
    /\ DOMAIN conn'.spaces[s].sent_packets \subseteq DOMAIN conn.spaces[s].sent_packets
    /\ \A n \in DOMAIN conn.spaces[s].sent_packets :
          (n < conn.spaces[s].largest_acked_packet
              /\ conn.spaces[s].sent_packets[n].time_sent + LossDelay(conn) <= now)
             => n \in LostIn(s)
    /\ DOMAIN conn.spaces[s].sent_packets \ DOMAIN conn'.spaces[s].sent_packets = LostIn(s)

\* every sent packet of the Initial and Handshake spaces that have keys went
\* back to pending, and crypto_count grew by one
HandshakeRetransmitted ==
    /\ Counters(conn') = <<conn.probes, conn.crypto_count + 1, conn.pto_count>>
    /\ \A s \in {Initial, Handshake} :
          IF conn.spaces[s].crypto
          THEN /\ conn'.spaces[s].sent_packets = NoPackets
               /\ conn'.spaces[s].pending =
                     AddLost(conn.spaces[s].pending, conn.spaces[s].sent_packets,
                             DOMAIN conn.spaces[s].sent_packets)
          ELSE conn'.spaces[s] = conn.spaces[s]
    /\ conn'.spaces[Data] = conn.spaces[Data]

\* count probes were queued and nothing sent was touched
ProbesQueued(count) ==
    /\ conn'.probes = conn.probes + count
    /\ conn'.spaces = conn.spaces

\* C32: a LossDetection timeout does exactly one of, in this order: loss
\* detection for the space with the earliest loss_time; with crypto packets in
\* flight or crypto_count above 0, every sent packet of the Initial and
\* Handshake spaces that have keys goes back to pending and crypto_count grows
\* by one; on a client in Handshake, one probe and crypto_count grows by one;
\* else two probes and pto_count grows by one.  Then the timer is set again by
\* the rules of set_loss_detection_timer.  A server whose handshake flight is
\* lost has the timer at time_of_last_sent_crypto_packet + 2 * initial_rtt, and
\* its expiry leaves crypto_count = 1.
C32_TimeoutAction ==
    /\ [][LossDetectionTimeout =>
            /\ IF LossTimes # {} THEN DetectionRan(EarliestSpace)
               ELSE IF conn.in_flight.crypto > 0 \/ conn.crypto_count > 0
               THEN HandshakeRetransmitted
               ELSE IF is_client(conn) /\ conn.state = "Handshake"
               THEN ProbesQueued(1)
                    /\ Counters(conn') = <<conn.probes + 1, conn.crypto_count + 1, conn.pto_count>>
               ELSE ProbesQueued(2)
                    /\ Counters(conn') = <<conn.probes + 2, conn.crypto_count, conn.pto_count + 1>>
            /\ conn'.timers["LossDetection"] = TimerByPriority']_vars
    /\ [][(is_server(conn) /\ conn.rtt.smoothed = {} /\ conn.crypto_count = 0
             /\ Len(conn'.gh_lost) = Len(conn.gh_lost)
             /\ conn'.gh_sent > conn.gh_sent /\ conn'.in_flight.crypto > conn.in_flight.crypto)
           => conn'.timers["LossDetection"] = {now + 2 * conn.config.initial_rtt}]_vars

\* a server whose handshake flight was taken for lost when the timer expired
\* two initial round trips after it was sent: the CRYPTO data is queued again
C32_Witness ==
    /\ is_server(conn)
    /\ env.timeouts = 1
    /\ conn.crypto_count = 1
    /\ now = conn.time_of_last_sent_crypto_packet + 2 * conn.config.initial_rtt
    /\ conn.spaces[Handshake].pending.crypto # <<>>
    /\ conn.spaces[Handshake].sent_packets = NoPackets


\* the ACK frames the peer may send in a space with keys: of any packets sent,
\* and of a packet not sent yet
AnyAcks(s) ==
    IF conn.spaces[s].crypto
    THEN {a \in AckFrames(s) : a.ecn = {}}
            \cup {AckFrame(conn.spaces[s].next_packet_number,
                           {conn.spaces[s].next_packet_number})}
    ELSE {}

\* the congestion state of a connection
Congestion(c) == <<c.congestion_window, c.ssthresh, c.recovery_start_time, c.in_flight>>

\* no packet of the space is left that loss detection at time t declares lost,
\* and loss_time is that of the packets waiting below largest_acked
LossDetectionDone(c, t, s) ==
    LET sp == c.spaces[s]
        waiting == {n \in DOMAIN sp.sent_packets : n < sp.largest_acked_packet}
    IN  /\ \A n \in waiting :
              /\ sp.sent_packets[n].time_sent > t - LossDelay(c)
              /\ n > SatSub(sp.largest_acked_packet, c.config.packet_threshold)
        /\ sp.loss_time = IF waiting = {} THEN {}
                          ELSE {SetMin({sp.sent_packets[n].time_sent + LossDelay(c) :
                                           n \in waiting})}

\* C33: after on_ack_received has processed an ACK that newly acknowledges a
\* packet in sent_packets, loss detection has been run for the space and
\* crypto_count and pto_count are 0; an ACK that newly acknowledges nothing
\* leaves crypto_count, pto_count, sent_packets, the congestion state and the
\* LossDetection timer as they were.
C33_AckResetsCounts ==
    \A s \in SpaceIds : \A ack \in AnyAcks(s) :
       LET after == on_ack_received(conn, now, s, ack)
       IN  IF ack.ranges \cap DOMAIN conn.spaces[s].sent_packets # {}
           THEN /\ after.crypto_count = 0
                /\ after.pto_count = 0
                /\ LossDetectionDone(after, now, s)
                /\ ack.ranges \cap DOMAIN after.spaces[s].sent_packets = {}
           ELSE /\ after.crypto_count = conn.crypto_count
                /\ after.pto_count = conn.pto_count
                /\ \A x \in SpaceIds : after.spaces[x].sent_packets = conn.spaces[x].sent_packets
                /\ Congestion(after) = Congestion(conn)
                /\ after.timers["LossDetection"] = conn.timers["LossDetection"]

\* a probe timeout has raised a count and an ACK of a packet sent has put both
\* counts back to 0
C33_Witness ==
    /\ conn.probes > 0
    /\ conn.gh_acked # <<>>
    /\ conn.crypto_count = 0
    /\ conn.pto_count = 0


----------------------------------------------------------------------------
\* Frames of Initial and Handshake packets (process_early_payload), in Spec

\* one frame of each type process_early_payload rejects
OtherFrames ==
    { Frame("PING"), Frame("INVALID"), MaxDataFrame(1), MaxStreamDataFrame(0, 1),
      StopSendingFrame(0), PathFrame("PATH_CHALLENGE", 1), PathFrame("PATH_RESPONSE", 1) }

\* an Initial or Handshake packet of the peer with one frame, which arrives
\* from an address the connection takes datagrams from, authenticates and is
\* processed by a connection that is neither closed nor draining
EarlyPacket(remote, pk) ==
    /\ Live /\ ~is_closed(conn)
    /\ pk.space \in {Initial, Handshake}
    /\ Authenticates(pk)
    /\ Processed(AfterFrom(remote, pk))

\* the connection was closed with a transport error and a CONNECTION_CLOSE is
\* scheduled
ClosedByViolation(pk, after) ==
    /\ process_early_payload(conn, now, pk).err = "PROTOCOL_VIOLATION"
    /\ after.state = "Closed"
    /\ after.events = Append(conn.events, ConnectionLost("TransportError"))
    /\ after.timers["Close"] # {}
    /\ after.close

\* the connection went to Draining on the peer's close frame and schedules no
\* CONNECTION_CLOSE of its own
DrainingByPeer(frame, after) ==
    /\ after.state = "Draining"
    /\ after.events = Append(conn.events,
                             ConnectionLost(IF frame.type = "APPLICATION_CLOSE"
                                            THEN "ApplicationClosed" ELSE "ConnectionClosed"))
    /\ after.timers["Close"] # {}
    /\ ~after.close

\* C34: in an Initial or Handshake packet PADDING and ACK frames leave the
\* connection open, a CONNECTION_CLOSE or APPLICATION_CLOSE frame moves it to
\* Draining with no CONNECTION_CLOSE scheduled, and a frame of any other type
\* but CRYPTO closes it with PROTOCOL_VIOLATION: state Closed and a
\* CONNECTION_CLOSE scheduled.
C34_EarlyFrames ==
    \A hdr \in {"Initial", "Handshake"}, remote \in Remotes :
       /\ \A frame \in OtherFrames :
             LET pk == Pkt(hdr, <<frame>>)
             IN  EarlyPacket(remote, pk) => ClosedByViolation(pk, AfterFrom(remote, pk))
       /\ \A ty \in CloseFrames :
             LET pk == Pkt(hdr, <<Frame(ty)>>)
             IN  EarlyPacket(remote, pk) => DrainingByPeer(Frame(ty), AfterFrom(remote, pk))
       /\ \A frame \in {Frame("PADDING"), AckFrame(0, {0})} :
             LET pk == Pkt(hdr, <<frame>>)
             IN  EarlyPacket(remote, pk) => AfterFrom(remote, pk).state = conn.state


----------------------------------------------------------------------------
\* Rejection of 0-RTT, in StrSpec

\* the step completed the handshake of a client that had 0-RTT keys and whose
\* early data the server did not accept: handle_connected_inner ran reject_0rtt
ZeroRttRejected ==
    /\ is_client(conn)
    /\ conn.state = "Handshake" /\ conn'.state = "Established"
    /\ conn.zero_rtt_crypto /\ ~conn'.early_data_accepted

\* in_flight counts the packets of the three sent_packets maps and no other
InFlightIsSent(c) ==
    InFlightRemoveAll(
      InFlightRemoveAll(InFlightRemoveAll(c.in_flight, c.spaces[Initial].sent_packets),
                        c.spaces[Handshake].sent_packets),
      c.spaces[Data].sent_packets) = InFlightNew

\* the bytes a write may queue on the connection (Connection::write)
SendBudget(c) == Min(c.max_data - c.data_sent, c.config.send_window - c.unacked_data)

\* C35: after a client's 0-RTT is rejected accepted_0rtt is false, every
\* stream's send offset is 0 again, data_sent = 0, the Data space has no
\* pending retransmits and no sent packets, in_flight counts no 0-RTT packet,
\* no stream is blocked, and the whole connection-level send budget, the
\* smaller of max_data and send_window, is available to write.
C35_ZeroRttRejected ==
    [][ZeroRttRejected =>
          /\ ~conn'.accepted_0rtt
          /\ \A id \in DOMAIN conn'.streams :
                conn'.streams[id].offset = 0 /\ conn'.streams[id].state = "Ready"
          /\ conn'.data_sent = 0
          /\ conn'.spaces[Data].pending = RetransmitsDefault
          /\ conn'.spaces[Data].sent_packets = NoPackets
          /\ InFlightIsSent(conn')
          /\ conn'.blocked_streams = {}
          /\ SendBudget(conn') = Min(conn'.max_data, conn'.config.send_window)]_vars


----------------------------------------------------------------------------
\* Promotion of the next generation of 1-RTT keys by a received packet, in KeySpec

\* an earlier key update of the peer has not been answered by a packet yet
UpdateUnacked(c) == IsSome(c.prev_crypto) /\ Get(c.prev_crypto).update_unacked

\* decrypt_packet tries the keys of the next generation on the packet and the
\* packet authenticates under them
NextKeysAuthenticate(pk) ==
    /\ pk.key_phase # conn.key_phase
    /\ packet_key(conn, pk) = "update"
    /\ decrypt(conn, "update", pk)

\* the connection took the next generation of keys for the packet numbered pn
Promoted(c, pn) ==
    /\ c.key_phase # conn.key_phase
    /\ c.key_gen = conn.key_gen + 1
    /\ IsSome(c.prev_crypto)
    /\ Get(c.prev_crypto).crypto = conn.key_gen
    /\ Get(c.prev_crypto).end_packet = pn
    /\ Get(c.prev_crypto).update_unacked

\* the keys are those of before
KeysKept(c) ==
    /\ c.key_phase = conn.key_phase
    /\ c.key_gen = conn.key_gen
    /\ IsSome(c.prev_crypto) = IsSome(conn.prev_crypto)
    /\ IsSome(c.prev_crypto) =>
          /\ Get(c.prev_crypto).crypto = Get(conn.prev_crypto).crypto
          /\ Get(c.prev_crypto).end_packet = Get(conn.prev_crypto).end_packet
          /\ Get(c.prev_crypto).update_unacked = Get(conn.prev_crypto).update_unacked

\* what decrypt_packet does to the keys for one 1-RTT packet
PromotedOnlyLegally(pk) ==
    LET c == decrypt_packet(conn, now, pk).c
        legal == /\ NextKeysAuthenticate(pk)
                 /\ pk.number > conn.spaces[Data].rx_packet
                 /\ ~UpdateUnacked(conn)
    IN  IF legal THEN Promoted(c, pk.number) ELSE KeysKept(c)

\* C36: a received 1-RTT packet promotes the next keys (key_phase flipped,
\* prev_crypto holding the old keys with end_packet = pn and update_unacked
\* true) only if its key phase bit differs from the connection's, it
\* authenticates under the keys of the next generation, pn > rx_packet and no
\* earlier update of the peer is unacknowledged: any other packet, one that
\* authenticates under the next keys included, leaves the keys as they are;
\* update_unacked is cleared only in a step that transmits a packet.
C36_KeyPromotion ==
    /\ [](conn.spaces[Data].crypto =>
            \A p \in KeyPackets : PromotedOnlyLegally(KeyPacket(p[1], p[2])))
    /\ [][UpdateUnacked(conn) /\ ~UpdateUnacked(conn') => tx'.out # {}]_vars


\* C36 as amended: the promotion rule as above; update_unacked is cleared by
\* the transmission of a packet, and goes away with the prev_crypto that holds
\* it when force_key_update replaces prev_crypto or prev_crypto is released.
C36_KeyPromotionOrReplaced ==
    /\ [](conn.spaces[Data].crypto =>
            \A p \in KeyPackets : PromotedOnlyLegally(KeyPacket(p[1], p[2])))
    /\ [][UpdateUnacked(conn) /\ ~UpdateUnacked(conn') =>
            \/ tx'.out # {}
            \/ conn'.key_gen # conn.key_gen
            \/ conn'.prev_crypto = {}]_vars

\* the peer updated the keys, force_key_update replaced prev_crypto before any
\* 1-RTT packet was received under the new keys, and a packet of the peer under
\* the keys of the generation after would be promoted
C36_Witness ==
    /\ conn.key_gen = 2
    /\ conn.gh_key = {1}
    /\ IsSome(conn.prev_crypto)
    /\ Get(conn.prev_crypto).crypto = 1
    /\ ~Get(conn.prev_crypto).update_unacked
    /\ \E n \in 0..KeyMaxNumber :
          Promoted(decrypt_packet(conn, now, KeyPacket(n, 3)).c, n)


----------------------------------------------------------------------------
\* Release of the previous 1-RTT keys: a client whose peer, or whose
\* application, updates the keys, with time running long enough for the
\* KeyDiscard timer to expire

KdMaxTime == 7

KdMaxDatagrams == 3

KdMaxTransmits == 2

\* the highest packet number and key generation of the peer's 1-RTT packets
KdMaxNumber == 1

KdMaxGeneration == 2

\* the peer's handshake flight
KdHandshake == <<Pkt("Initial", <<CryptoFrame(0, 1)>>), Pkt("Handshake", <<CryptoFrame(0, 1)>>)>>

\* the peer's 1-RTT packets: any number under the keys of any generation
KdPackets == {KeyPacket(n, g) : n \in 0..KdMaxNumber, g \in 0..KdMaxGeneration}

\* the peer's datagrams arrive while the time left lets a KeyDiscard timer
\* armed on arrival expire: its handshake flight during the handshake, 1-RTT
\* packets after it
KdReceive ==
    /\ now + 3 * pto(conn) <= KdMaxTime
    /\ \E d \in IF conn.state = "Handshake" THEN {KdHandshake}
                ELSE {<<pk>> : pk \in KdPackets} :
          ReceiveDatagram(Dgram(d), KdMaxDatagrams)

KdPoll == Poll(KdMaxTransmits)

KdForceKeyUpdate ==
    /\ env.appcalls = 0
    /\ ForceKeyUpdate(1)

\* handle_event(Timeout(KeyDiscard)): the host delivers the expired timer
KdKeyDiscard ==
    /\ Live
    /\ conn.timers["KeyDiscard"] # {}
    /\ Get(conn.timers["KeyDiscard"]) <= now
    /\ conn' = timeout(timer_stop(conn, "KeyDiscard"), now, "KeyDiscard")
    /\ env' = [env EXCEPT !.timeouts = @ + 1]
    /\ tx' = NoTx
    /\ UNCHANGED now

KdTick ==
    /\ now < KdMaxTime
    /\ now' = now + 1
    /\ tx' = NoTx
    /\ UNCHANGED <<conn, env>>

KdNext ==
    \/ KdReceive
    \/ KdPoll
    \/ KdForceKeyUpdate
    \/ KdKeyDiscard
    \/ KdTick

KdSpec == KeyInit /\ [][KdNext]_vars

\* the host driver keeps time running and delivers an expired KeyDiscard timer
KdFairSpec == KeyInit /\ [][KdNext]_vars /\ WF_vars(KdTick) /\ WF_vars(KdKeyDiscard)


\* update_ack_time of the previous keys, if there are previous keys
AckTime(c) == IF IsSome(c.prev_crypto) THEN Get(c.prev_crypto).update_ack_time ELSE {}

\* the step is a KeyDiscard timeout
KeyDiscardTimeout == env'.timeouts = env.timeouts + 1

\* prev_crypto is released only by a KeyDiscard timeout at least 3 * pto after
\* update_ack_time
ReleasedByTimeout ==
    IsSome(conn.prev_crypto) /\ conn'.prev_crypto = {} =>
       /\ KeyDiscardTimeout
       /\ AckTime(conn) # {}
       /\ now - Get(AckTime(conn)) >= 3 * pto(conn)

\* update_ack_time is recorded once for a key update, in a step that
\* authenticates a packet of the peer under the new keys
RecordedOnce ==
    /\ AckTime(conn) # {} /\ conn'.key_gen = conn.key_gen /\ IsSome(conn'.prev_crypto) =>
          AckTime(conn') = AckTime(conn)
    /\ AckTime(conn') # {} /\ (AckTime(conn) = {} \/ conn'.key_gen # conn.key_gen) =>
          AckTime(conn') = {now} /\ conn'.gh_key = {conn'.key_gen}

\* the first packet that authenticates under the new keys records update_ack_time
RecordedAtFirstEvidence ==
    IsSome(conn.prev_crypto) /\ conn.spaces[Data].crypto =>
       \A n \in 0..KdMaxNumber, g \in 0..KdMaxGeneration :
          LET r == decrypt_packet(conn, now, KeyPacket(n, g))
          IN  r.res # "drop" /\ KeyPacket(n, g).key_phase = conn.key_phase =>
                 AckTime(r.c) # {}

\* with update_ack_time recorded the KeyDiscard timer of an open connection runs
DiscardArmed ==
    AckTime(conn) # {} /\ ~is_closed(conn) => conn.timers["KeyDiscard"] # {}

----------------------------------------------------------------------------
\* Path challenges from other addresses: a server whose peer completes the
\* handshake while 1-RTT packets carrying PATH_CHALLENGE alone arrive from the
\* connection's remote address and from another one

OffMaxDatagrams == 3

OffMaxTransmits == 4

OffPackets ==
    {Pkt("Handshake", <<CryptoFrame(0, 1)>>)}
    \cup {Pkt("Short", <<PathFrame("PATH_CHALLENGE", token)>>) : token \in Tokens}

OffReceive ==
    \E pk \in OffPackets, remote \in Remotes :
        ReceiveDatagram([remote |-> remote, ecn |-> FALSE, packets |-> <<pk>>], OffMaxDatagrams)

OffPoll == Poll(OffMaxTransmits)

OffNext ==
    \/ AmpAccept
    \/ OffReceive
    \/ OffPoll
    \/ Advance

OffSpec == AmpInit /\ [][OffNext]_vars

\* the off-path challenge poll_transmit answers next (Vec::pop)
NextOffPath == conn.offpath_responses[Len(conn.offpath_responses)]

\* the step is a poll_transmit that sends the answer to an off-path challenge
OffPathResponseSent ==
    /\ conn.offpath_responses # <<>>
    /\ conn.state # "Closed"
    /\ tx'.out # {}

\* what the spaces hold to send or to retransmit
Pending(c) == [s \in SpaceIds |-> <<c.spaces[s].pending, c.spaces[s].pending_acks>>]

SentPackets(c) == [s \in SpaceIds |-> c.spaces[s].sent_packets]

\* C38: an off-path PATH_CHALLENGE queues exactly one answer, and poll_transmit
\* sends each answer as one packet to the address the challenge came from that
\* carries only the PATH_RESPONSE with the challenge's token, is a 1-RTT packet
\* and is not recorded in sent_packets; sending it leaves what is pending in
\* every space as it was, and an answer leaves the queue only by being sent.
C38_OffPathResponse ==
    [][/\ OffPathResponseSent =>
            \E T \in tx'.out :
               /\ T.destination = NextOffPath[1]
               /\ T.frames = {"PATH_RESPONSE"}
               /\ T.token = {NextOffPath[2]}
               /\ T.space = Data /\ conn.spaces[Data].crypto
               /\ ~T.recorded
               /\ SentPackets(conn') = SentPackets(conn)
               /\ Pending(conn') = Pending(conn)
               /\ conn'.offpath_responses =
                     SubSeq(conn.offpath_responses, 1, Len(conn.offpath_responses) - 1)
       /\ Len(conn'.offpath_responses) < Len(conn.offpath_responses) => OffPathResponseSent
       /\ Len(conn'.offpath_responses) <= Len(conn.offpath_responses) + 1]_vars


\* the smallest range of a set of packet numbers
MinRange(S) == {n \in S : \A m \in SetMin(S)..n : m \in S}

\* the step acknowledged a packet of the space that carried an ACK frame naming n
CarrierAcked(s, n) ==
    \E k \in DOMAIN conn.spaces[s].sent_packets :
       /\ conn.spaces[s].sent_packets[k].uid \in NewlyAcked
       /\ n \in conn.spaces[s].sent_packets[k].acks

\* the step received a packet that made a range too many, and n was in the
\* smallest range
CapDropped(s, n) ==
    /\ RangeCount(conn.spaces[s].pending_acks) = MAX_ACK_BLOCKS
    /\ conn'.spaces[s].rx_packet > conn.spaces[s].rx_packet
    /\ n \in MinRange(conn.spaces[s].pending_acks)

\* a range leaves pending_acks only with the acknowledgement of a packet that
\* carried it or as the smallest range of a set that grew past MAX_ACK_BLOCKS
AcksLeave ==
    \A s \in SpaceIds :
       \A n \in conn.spaces[s].pending_acks \ conn'.spaces[s].pending_acks :
          CarrierAcked(s, n) \/ CapDropped(s, n)

\* the ACK frame of a transmitted packet names the pending_acks of its space
AckFromPending ==
    \A T \in tx'.out :
       "ACK" \in T.frames =>
          /\ T.recorded
          /\ conn'.spaces[T.space].sent_packets[T.number].acks
                = conn.spaces[T.space].pending_acks

\* the step declared lost packets that carried an ACK frame and nothing to
\* retransmit
AckOnlyLost ==
    /\ NewlyLost # {}
    /\ \A s \in SpaceIds : \A k \in DOMAIN conn.spaces[s].sent_packets :
          conn.spaces[s].sent_packets[k].uid \in NewlyLost =>
             /\ conn.spaces[s].sent_packets[k].acks # {}
             /\ conn.spaces[s].sent_packets[k].retransmits = RetransmitsDefault

\* the loss of a packet that carried only an ACK frame queues nothing
LostAcksNotQueued ==
    AckOnlyLost => \A s \in SpaceIds : conn'.spaces[s].pending = conn.spaces[s].pending

\* C39: ACK information is not retransmitted: the loss of a packet that carried
\* ACK ranges queues none of them, every outgoing ACK frame names the current
\* pending_acks of its space, a number leaves pending_acks only when a packet
\* that carried it is acknowledged or when the set has grown past
\* MAX_ACK_BLOCKS ranges and its smallest range is dropped, and pending_acks
\* never holds more than MAX_ACK_BLOCKS ranges.
C39_AcksNotRetransmitted ==
    /\ [](\A s \in SpaceIds : RangeCount(conn.spaces[s].pending_acks) <= MAX_ACK_BLOCKS)
    /\ [][AcksLeave /\ AckFromPending /\ LostAcksNotQueued]_vars


----------------------------------------------------------------------------
\* The Connected event, checked under Spec.

\* the step queued a Connected event
QueuesConnected == CountType(conn'.events, "Connected") > CountType(conn.events, "Connected")

\* the step took a Handshake packet of the peer, sent with the connection id
\* the handshake expects, that left the TLS session with its handshake done
CompletingPacket ==
    \E pk \in LifePackets :
       /\ pk.hdr = "Handshake" /\ pk.src_cid = conn.rem_handshake_cid
       /\ conn' = handle_datagram(conn, now, conn.remote, FALSE, <<pk>>)
       /\ ~TlsIsHandshaking(conn'.tls)

\* every Connected event of the queue precedes every ConnectionLost event
ConnectedBeforeLost ==
    \A i, j \in 1..Len(conn.events) :
       conn.events[i].type = "Connected" /\ conn.events[j].type = "ConnectionLost" => i < j

\* C40: the Connected event is queued at most once, in the step that takes the
\* connection from Handshake to Established and in no other, which is the
\* receipt of a Handshake packet from the expected connection id that
\* completes the TLS handshake; it is never queued after a ConnectionLost
\* event, and a connection that is closed without having queued it never
\* queues it.
C40_ConnectedOnce ==
    /\ [](/\ CountType(conn.events, "Connected") <= 1
          /\ ConnectedBeforeLost
          /\ (conn.state = "Handshake" => CountType(conn.events, "Connected") = 0))
    /\ [][/\ QueuesConnected <=> (conn.state = "Handshake" /\ conn'.state = "Established")
          /\ QueuesConnected => CompletingPacket
          /\ is_closed(conn) => ~QueuesConnected]_vars

\* the handshake completed and the connection was lost afterwards
C40_Witness ==
    /\ Len(conn.events) >= 2
    /\ conn.events[1].type = "Connected"
    /\ conn.events[Len(conn.events)].type = "ConnectionLost"
    /\ is_closed(conn)

====
